---- MODULE Spec2Model ----
(***************************************************************************)
(* Timeline windowing and incremental reconciliation engine of tabs_app.   *)
(*                                                                         *)
(* Times are integers in milliseconds (the source uses f32 seconds), so    *)
(* 10.0 s is 10000.  Beats per minute and the estimated beat are exact     *)
(* rationals <<numerator, denominator>>.  A HashMap<K, Entity> is modelled *)
(* by its key set; the commands a system issues (spawn / despawn) are      *)
(* recorded in the variable cmds.  The 64-bit metadata_hash of a NoteKey   *)
(* is modelled by the tuple of the fields it hashes.                       *)
(***************************************************************************)
EXTENDS Integers, Sequences, FiniteSets, TLC

VARIABLES feed, view, cmds, time_delta, stage, tempo_notes, tempo_duration, merge_charts,
          merge_out, select_charts, select_out, range_notes, range_out,
          indicator, overlays

vars == <<feed, view, cmds, time_delta, stage, tempo_notes, tempo_duration, merge_charts,
          merge_out, select_charts, select_out, range_notes, range_out,
          indicator, overlays>>

(***************************************************************************)
(* Program constants (milliseconds, percent).                              *)
(***************************************************************************)
DEFAULT_BLOCK_DURATION == 10000
MIN_BLOCK_DURATION == 1200
MAX_BLOCK_DURATION == 14000
VISIBLE_BLOCKS == 4
BLOCK_SHIFT_DURATION == 180
MIN_FRET_SPAN == 4
NOTE_GROUP_TOLERANCE == 80
FRET_ZOOM_DURATION == 280
FRET_ZOOM_START_SCALE == 85
DEFAULT_DIFFICULTY_PERCENT == 100
MIN_NOTES_FOR_TEMPO == 8
MIN_INTERVAL_SECONDS == 10
MAX_INTERVAL_SECONDS == 4000
BEATS_PER_BLOCK == 4
MIN_BEAT == 250
MAX_BEAT == 1500
MIN_BPM == 60
MAX_BPM == 240
SHIFT_PROGRESS_PERCENT == 95
\* 2^23: an f32 significand lies in [2^23, 2^24)
F32_SIGNIFICAND == 8388608

(***************************************************************************)
(* Bounds of the model.                                                    *)
(***************************************************************************)
MaxBlock == 5
MaxOnsets == 9
MaxCharts == 3
MaxSelectCharts == 3

None == [none |-> TRUE]

Max(a, b) == IF a >= b THEN a ELSE b
Min(a, b) == IF a <= b THEN a ELSE b
Abs(a) == IF a < 0 THEN 0 - a ELSE a
Clamp(x, lo, hi) == IF x < lo THEN lo ELSE IF x > hi THEN hi ELSE x

RECURSIVE GCD(_, _)
GCD(a, b) == IF b = 0 THEN a ELSE GCD(b, a % b)

\* exact rationals <<n, d>>, d > 0, in lowest terms
Rat(n, d) == LET g == GCD(Abs(n), d) IN <<n \div g, d \div g>>
RLess(a, b) == a[1] * b[2] < b[1] * a[2]
RLeq(a, b) == a[1] * b[2] <= b[1] * a[2]
RAdd(a, b) == Rat(a[1] * b[2] + b[1] * a[2], a[2] * b[2])
RMulInt(a, k) == Rat(a[1] * k, a[2])
RDivInt(a, k) == Rat(a[1], a[2] * k)
RInv(k, a) == Rat(k * a[2], a[1])
RClamp(x, lo, hi) == IF RLess(x, <<lo, 1>>) THEN <<lo, 1>>
                     ELSE IF RLess(<<hi, 1>>, x) THEN <<hi, 1>> ELSE x
RFloor(a) == a[1] \div a[2]

(***************************************************************************)
(* TempoEstimator (scenes/gameplay.rs).                                    *)
(***************************************************************************)
RECURSIVE InsertSorted(_, _)
InsertSorted(x, s) ==
    IF s = <<>> THEN <<x>>
    ELSE IF x < Head(s) THEN <<x>> \o s
    ELSE <<Head(s)>> \o InsertSorted(x, Tail(s))

RECURSIVE SortInts(_)
SortInts(s) == IF s = <<>> THEN <<>>
               ELSE InsertSorted(s[Len(s)], SortInts(SubSeq(s, 1, Len(s) - 1)))

\* Vec::dedup_by: an element closer than 0.5 ms to the last retained element
\* is dropped; on the millisecond grid that is a gap of 0.
RECURSIVE DedupTimes(_, _)
DedupTimes(s, acc) ==
    IF s = <<>> THEN acc
    ELSE IF acc # <<>> /\ 2 * Abs(Head(s) - acc[Len(acc)]) < 1
         THEN DedupTimes(Tail(s), acc)
         ELSE DedupTimes(Tail(s), Append(acc, Head(s)))

RECURSIVE ChartTimes(_)
ChartTimes(notes) ==
    IF notes = <<>> THEN <<>>
    ELSE IF Head(notes).string < 0 THEN ChartTimes(Tail(notes))
    ELSE <<Head(notes).time>> \o ChartTimes(Tail(notes))

RECURSIVE AllChartTimes(_)
AllChartTimes(charts) ==
    IF charts = <<>> THEN <<>>
    ELSE ChartTimes(Head(charts).notes) \o AllChartTimes(Tail(charts))

collect_unique_note_times(charts) ==
    DedupTimes(SortInts(AllChartTimes(charts)), <<>>)

RECURSIVE FoldUp(_)
FoldUp(bpm) == IF RLess(bpm, <<MIN_BPM, 1>>) THEN FoldUp(RMulInt(bpm, 2)) ELSE bpm

RECURSIVE FoldDown(_)
FoldDown(bpm) == IF RLess(<<MAX_BPM, 1>>, bpm) THEN FoldDown(RDivInt(bpm, 2)) ELSE bpm

\* every gap taken as plausible
GapAlwaysValid(diff) == TRUE

GapValid(diff) == ~(diff < MIN_INTERVAL_SECONDS \/ diff > MAX_INTERVAL_SECONDS)

RECURSIVE GapBpms(_)
GapBpms(times) ==
    IF Len(times) < 2 THEN <<>>
    ELSE LET diff == Max(times[2] - times[1], 0)
         IN  IF GapValid(diff)
             THEN <<FoldDown(FoldUp(Rat(60000, Max(diff, 1))))>> \o GapBpms(Tail(times))
             ELSE GapBpms(Tail(times))

RECURSIVE InsertSortedRat(_, _)
InsertSortedRat(x, s) ==
    IF s = <<>> THEN <<x>>
    ELSE IF RLess(x, Head(s)) THEN <<x>> \o s
    ELSE <<Head(s)>> \o InsertSortedRat(x, Tail(s))

RECURSIVE SortRats(_)
SortRats(s) == IF s = <<>> THEN <<>>
               ELSE InsertSortedRat(s[Len(s)], SortRats(SubSeq(s, 1, Len(s) - 1)))

\* the gap count compared one too low
EnoughGapsOffByOne(bpms) == ~(Len(bpms) < MIN_NOTES_FOR_TEMPO - 1)

EnoughGaps(bpms) == ~(Len(bpms) < MIN_NOTES_FOR_TEMPO)

MedianBpm(sorted) ==
    IF Len(sorted) % 2 = 0
    THEN RDivInt(RAdd(sorted[Len(sorted) \div 2], sorted[Len(sorted) \div 2 + 1]), 2)
    ELSE sorted[Len(sorted) \div 2 + 1]

\* None, or the beat duration in ms as a rational
estimate_beat_duration(times) ==
    IF Len(times) < 2 THEN None
    ELSE LET bpms == GapBpms(times)
         IN  IF ~EnoughGaps(bpms) THEN None
             ELSE RClamp(RInv(60000, MedianBpm(SortRats(bpms))), MIN_BEAT, MAX_BEAT)

\* the duration passed through without the clamp
unclamped_block_duration(duration) == duration

clamp_block_duration(duration) == RClamp(duration, MIN_BLOCK_DURATION, MAX_BLOCK_DURATION)

default_block_duration == <<DEFAULT_BLOCK_DURATION, 1>>

determine_initial_block_duration(charts) ==
    LET times == collect_unique_note_times(charts)
    IN  IF Len(times) < MIN_NOTES_FOR_TEMPO THEN default_block_duration
        ELSE LET beat == estimate_beat_duration(times)
             IN  IF beat # None
                 THEN clamp_block_duration(RMulInt(beat, BEATS_PER_BLOCK))
                 ELSE default_block_duration

(***************************************************************************)
(* Tabs (file/song.rs): TabNote, TabNoteChart, Tab.  max_bend is in tenths *)
(* of a semitone.                                                          *)
(***************************************************************************)
TabNote(time, sustain, string, fret) ==
    [time |-> time, sustain |-> sustain, string |-> string, fret |-> fret,
     techniques |-> <<>>, anchor_fret |-> -1, slide_to |-> -1,
     slide_unpitch_to |-> -1, max_bend |-> 0]

TabNoteChart(difficulty, notes) == [difficulty |-> difficulty, notes |-> notes]

StringTab(note_charts) == [kind |-> "Strings", note_charts |-> note_charts]

VocalTab == [kind |-> "Vocals", note_charts |-> <<>>]

(***************************************************************************)
(* NoteStreamMerger (scenes/gameplay.rs).                                  *)
(***************************************************************************)
RECURSIVE StableInsertChart(_, _)
StableInsertChart(c, s) ==
    IF s = <<>> THEN <<c>>
    ELSE IF c.difficulty < Head(s).difficulty THEN <<c>> \o s
    ELSE <<Head(s)>> \o StableInsertChart(c, Tail(s))

\* slice::sort_by_key(|chart| chart.difficulty): a stable sort
RECURSIVE SortChartsByDifficulty(_)
SortChartsByDifficulty(s) ==
    IF s = <<>> THEN <<>>
    ELSE StableInsertChart(s[Len(s)], SortChartsByDifficulty(SubSeq(s, 1, Len(s) - 1)))

RECURSIVE MinDifficulty(_)
MinDifficulty(s) == IF Len(s) = 1 THEN s[1].difficulty
                    ELSE Min(s[1].difficulty, MinDifficulty(Tail(s)))

RECURSIVE MaxDifficulty(_)
MaxDifficulty(s) == IF Len(s) = 1 THEN s[1].difficulty
                    ELSE Max(s[1].difficulty, MaxDifficulty(Tail(s)))

CeilDiv(a, b) == (a + b - 1) \div b

RECURSIVE Pow2(_)
Pow2(k) == IF k = 0 THEN 1 ELSE 2 * Pow2(k - 1)

\* IEEE-754 round-to-nearest, ties-to-even, of the quotient n / d
RoundHalfEven(n, d) ==
    LET q == n \div d
        r == n % d
    IN  IF 2 * r > d \/ (2 * r = d /\ q % 2 = 1) THEN q + 1 ELSE q

\* f32 division `clamped / 100.0` of two small non-negative integers: the
\* result is the binary fraction m / 2^e with a 24-bit significand m
F32Div(n, d) ==
    IF n = 0 THEN [m |-> 0, e |-> 0]
    ELSE LET e == CHOOSE j \in 0..30 : n * Pow2(j) >= F32_SIGNIFICAND * d
         IN  [m |-> RoundHalfEven(n * Pow2(e), d), e |-> e]

\* f32 product `(max_difficulty as f32) * x` of a small positive integer and a
\* binary fraction, rounded back to a 24-bit significand
F32MulInt(a, x) ==
    LET n == a * x.m
        drop == CHOOSE j \in 0..8 : n < 2 * F32_SIGNIFICAND * Pow2(j)
    IN  [m |-> RoundHalfEven(n, Pow2(drop)), e |-> x.e - drop]

\* f32::ceil followed by `as i32`
F32Ceil(x) == CeilDiv(x.m, Pow2(x.e))

DifficultyThreshold(min_difficulty, max_difficulty, difficulty_percent) ==
    LET clamped == Clamp(difficulty_percent, 0, 100)
        threshold == IF max_difficulty <= 0 THEN min_difficulty
                     ELSE F32Ceil(F32MulInt(max_difficulty, F32Div(clamped, 100)))
    IN  IF threshold < min_difficulty THEN min_difficulty ELSE threshold

select_charts_up_to(note_charts, difficulty_percent) ==
    IF note_charts = <<>> THEN <<>>
    ELSE LET charts == SortChartsByDifficulty(note_charts)
             threshold == DifficultyThreshold(MinDifficulty(charts), MaxDifficulty(charts),
                                              difficulty_percent)
         IN  SelectSeq(charts, LAMBDA chart : chart.difficulty <= threshold)

RECURSIVE MaxStringCount(_)
MaxStringCount(notes) ==
    IF notes = <<>> THEN 0
    ELSE Max(IF Head(notes).string >= 0 THEN Head(notes).string + 1 ELSE 0,
             MaxStringCount(Tail(notes)))

RECURSIVE ChartsStringCount(_)
ChartsStringCount(charts) ==
    IF charts = <<>> THEN 0
    ELSE Max(MaxStringCount(Head(charts).notes), ChartsStringCount(Tail(charts)))

TabNoteEnd(note) == Max(note.time + Max(note.sustain, 0), note.time)

\* the two `continue`s on the window
OutsideWindow(note, window_start, window_end) ==
    TabNoteEnd(note) < window_start \/ note.time > window_end

MergeKey(note) == <<note.time, note.string, note.fret>>

\* HashMap::insert: the later note replaces the earlier one under the same key
MapInsert(m, key, note) ==
    [k \in DOMAIN m \cup {key} |-> IF k = key THEN note ELSE m[k]]

RECURSIVE MergeNotes(_, _, _, _)
MergeNotes(notes, m, window_start, window_end) ==
    IF notes = <<>> THEN m
    ELSE LET note == Head(notes)
         IN  IF note.string < 0 \/ OutsideWindow(note, window_start, window_end)
             THEN MergeNotes(Tail(notes), m, window_start, window_end)
             ELSE MergeNotes(Tail(notes), MapInsert(m, MergeKey(note), note),
                             window_start, window_end)

RECURSIVE MergeCharts(_, _, _, _)
MergeCharts(charts, m, window_start, window_end) ==
    IF charts = <<>> THEN m
    ELSE MergeCharts(Tail(charts),
                     MergeNotes(Head(charts).notes, m, window_start, window_end),
                     window_start, window_end)

KeyLess(a, b) ==
    \/ a[1] < b[1]
    \/ a[1] = b[1] /\ a[2] < b[2]
    \/ a[1] = b[1] /\ a[2] = b[2] /\ a[3] < b[3]

\* sort_by (time, string, fret) of the map's values; the keys are distinct
RECURSIVE SortMerged(_)
SortMerged(m) ==
    IF DOMAIN m = {} THEN <<>>
    ELSE LET k == CHOOSE x \in DOMAIN m : \A y \in DOMAIN m : y = x \/ KeyLess(x, y)
         IN  <<m[k]>> \o SortMerged([j \in DOMAIN m \ {k} |-> m[j]])

InSeq(x, s) == \E i \in 1..Len(s) : s[i] = x

push_additional(additional_frets, fret, candidate) ==
    IF candidate < 0 \/ candidate = fret THEN additional_frets
    ELSE IF ~InSeq(candidate, additional_frets) THEN Append(additional_frets, candidate)
    ELSE additional_frets

AdditionalFrets(note) ==
    LET a1 == IF note.slide_to >= 0 THEN push_additional(<<>>, note.fret, note.slide_to)
              ELSE <<>>
        a2 == IF note.slide_unpitch_to >= 0
              THEN push_additional(a1, note.fret, note.slide_unpitch_to) ELSE a1
        a3 == IF note.anchor_fret >= 0
              THEN push_additional(a2, note.fret, note.anchor_fret) ELSE a2
    IN  IF note.max_bend > 0
        THEN push_additional(a3, note.fret, note.fret + CeilDiv(note.max_bend, 10))
        ELSE a3

TimelineNote(note) ==
    [time |-> note.time,
     sustain |-> Max(note.sustain, 0),
     string_index |-> note.string,
     fret |-> note.fret,
     techniques |-> note.techniques,
     additional_frets |-> AdditionalFrets(note),
     slide_target |-> IF note.slide_to >= 0 THEN note.slide_to ELSE -1,
     slide_unpitched_target |-> IF note.slide_unpitch_to >= 0
                                THEN note.slide_unpitch_to ELSE -1]

EmptyMap == [k \in {} |-> 0]

\* merged_notes.into_iter().map(..).collect()
RECURSIVE ConvertNotes(_)
ConvertNotes(notes) ==
    IF notes = <<>> THEN <<>>
    ELSE <<TimelineNote(Head(notes))>> \o ConvertNotes(Tail(notes))

\* the merged, sorted, converted note list of track_timeline
VisibleNotes(charts, window_start, window_end) ==
    LET sorted_charts == SortChartsByDifficulty(charts)
        merged == MergeCharts(sorted_charts, EmptyMap, window_start, window_end)
        merged_notes == SortMerged(merged)
    IN  ConvertNotes(merged_notes)

CurrentBlockIndex(current_time, block_duration) ==
    Max(current_time \div block_duration, 0)

update_timeline_window(timeline, current_time) ==
    LET block_duration ==
            Clamp(IF timeline.block_duration > 0 THEN timeline.block_duration
                  ELSE DEFAULT_BLOCK_DURATION, MIN_BLOCK_DURATION, MAX_BLOCK_DURATION)
        window_length == block_duration * VISIBLE_BLOCKS
        current_block_index == CurrentBlockIndex(current_time, block_duration)
        window_start_block == Max(current_block_index - 1, 0)
        window_start == window_start_block * block_duration
    IN  [timeline EXCEPT !.block_duration = block_duration,
                         !.window_start = window_start,
                         !.window_end = window_start + window_length]

\* track_timeline, after the early returns (no clock, no tab asset)
track_timeline(timeline, tab, current_time) ==
    LET t1 == [timeline EXCEPT !.current_time = current_time,
                               !.block_duration =
                                   IF timeline.block_duration <= 0
                                   THEN DEFAULT_BLOCK_DURATION
                                   ELSE timeline.block_duration]
        charts == select_charts_up_to(tab.note_charts, DEFAULT_DIFFICULTY_PERCENT)
        cleared == [update_timeline_window(
                        [t1 EXCEPT !.block_duration = DEFAULT_BLOCK_DURATION,
                                   !.block_duration_locked = FALSE], current_time)
                    EXCEPT !.string_count = 0, !.notes = <<>>]
    IN  IF tab.kind = "Vocals" \/ charts = <<>> THEN cleared
        ELSE LET t2 == IF ~t1.block_duration_locked
                       THEN [t1 EXCEPT !.block_duration =
                                          RFloor(determine_initial_block_duration(charts)),
                                       !.block_duration_locked = TRUE]
                       ELSE t1
                 t3 == update_timeline_window(t2, current_time)
             IN  [t3 EXCEPT !.string_count = ChartsStringCount(charts),
                            !.notes = VisibleNotes(charts, t3.window_start, t3.window_end)]

\* StringTimelineFeed::default and setup_timeline_ui
DefaultFeed ==
    [string_count |-> 0,
     window_start |-> 0,
     window_end |-> DEFAULT_BLOCK_DURATION * VISIBLE_BLOCKS,
     notes |-> <<>>,
     current_time |-> 0,
     block_duration |-> DEFAULT_BLOCK_DURATION,
     block_duration_locked |-> FALSE]

(***************************************************************************)
(* Keys and the view (components/string_timeline.rs).                     *)
(***************************************************************************)
NoteKey(note) ==
    [time_bits |-> note.time,
     string_index |-> note.string_index,
     fret |-> note.fret,
     metadata_hash |-> <<note.techniques, note.additional_frets, note.slide_target,
                         note.slide_unpitched_target>>]

SustainSegmentKey(note, block_index) == [note |-> NoteKey(note), block_index |-> block_index]

FretMarkerKey(note, role) == [note |-> NoteKey(note), role |-> role]

primary_slide_target(note) ==
    IF note.slide_target >= 0 THEN note.slide_target ELSE note.slide_unpitched_target

is_slide(note) == InSeq("Slide", note.techniques) /\ primary_slide_target(note) >= 0

EmptyRow ==
    [rendered_notes |-> {}, rendered_sustain_segments |-> {}, rendered_slide_segments |-> {}]

spawn_block(index, string_count) ==
    [index |-> index, rows |-> [r \in 1..string_count |-> EmptyRow], is_removing |-> FALSE]

\* StringTimelineView after setup_timeline_ui
InitialView ==
    [blocks |-> <<>>,
     cached_string_count |-> 0,
     base_block_index |-> 0,
     shift_animation |-> None,
     fret_string_lines |-> 0,
     fret_fret_lines |-> 0,
     fret_markers |-> {},
     fret_current_signature |-> <<>>,
     fret_current_range |-> None,
     fret_zoom_animation |-> None,
     fret_scale |-> <<100, 1>>]

NoCmds == [created |-> {}, destroyed |-> {}]

\* between two frames: no update_timeline call is under way
IdleStage == [pc |-> "idle", shift_animation |-> None, fret_zoom_animation |-> None]

\* entries of the command log
BlockCmd(via, index) ==
    [kind |-> "block", via |-> via, block |-> index, row |-> 0, key |-> None]

PrimCmd(kind, via, index, row, key) ==
    [kind |-> kind, via |-> via, block |-> index, row |-> row, key |-> key]

MarkerCmd(via, key) ==
    [kind |-> "fret_marker", via |-> via, block |-> -1, row |-> 0, key |-> key]

\* a block root with every primitive below it: despawn is recursive
BlockEntities(via, block) ==
    {BlockCmd(via, block.index)}
    \cup UNION {
        {PrimCmd("note", via, block.index, r, k) : k \in block.rows[r].rendered_notes}
        \cup {PrimCmd("sustain", via, block.index, r, k) :
                  k \in block.rows[r].rendered_sustain_segments}
        \cup {PrimCmd("slide", via, block.index, r, e.key) :
                  e \in block.rows[r].rendered_slide_segments}
        : r \in DOMAIN block.rows}

unfreeze_remaining_blocks(blocks) ==
    [i \in DOMAIN blocks |-> [blocks[i] EXCEPT !.is_removing = FALSE]]

RemoveAt(seq, position) ==
    SubSeq(seq, 1, position - 1) \o SubSeq(seq, position + 1, Len(seq))

\* the collapse taken as complete in its first frame
ShiftCompletedAtOnce(animation) == animation.elapsed > 0

\* a step of the pipeline: s = [view, created, destroyed]
ShiftCompleted(animation) == animation.elapsed >= animation.duration

shift_animation_not_advanced(s, delta_seconds) == s

\* the elapsed time held below the duration: the collapse never completes
shift_animation_held(s, delta_seconds) ==
    IF s.view.shift_animation = None THEN s
    ELSE [s EXCEPT !.view.shift_animation.elapsed =
                       Min(@ + delta_seconds, s.view.shift_animation.duration - 1)]

progress_shift_animation(s, delta_seconds) ==
    IF s.view.shift_animation = None THEN s
    ELSE LET animation == [s.view.shift_animation EXCEPT !.elapsed = @ + delta_seconds]
             found == {i \in DOMAIN s.view.blocks :
                          s.view.blocks[i].index = animation.removing_index}
         IN  IF found = {}
             THEN [s EXCEPT !.view.base_block_index = animation.target_base_index,
                            !.view.shift_animation = None,
                            !.view.blocks = unfreeze_remaining_blocks(s.view.blocks)]
             ELSE LET position == CHOOSE i \in found : \A j \in found : i <= j
                  IN  IF ShiftCompleted(animation)
                      THEN [s EXCEPT
                              !.view.blocks =
                                  unfreeze_remaining_blocks(RemoveAt(s.view.blocks, position)),
                              !.view.base_block_index = animation.target_base_index,
                              !.view.shift_animation = None,
                              !.destroyed = @ \cup BlockEntities("clear_block",
                                                                 s.view.blocks[position])]
                      ELSE [s EXCEPT !.view.shift_animation = animation]

\* the blocks cleared, base and shift animation left as they were
clear_all_blocks_keep_base(s) ==
    [s EXCEPT !.view.blocks = <<>>,
              !.destroyed = @ \cup UNION {BlockEntities("clear_block", s.view.blocks[i]) :
                                              i \in DOMAIN s.view.blocks}]

clear_all_blocks(s) ==
    [s EXCEPT !.view.blocks = <<>>,
              !.view.base_block_index = 0,
              !.view.shift_animation = None,
              !.destroyed = @ \cup UNION {BlockEntities("clear_block", s.view.blocks[i]) :
                                              i \in DOMAIN s.view.blocks}]

\* the animation started without flagging the base block
start_shift_animation_unflagged(vw, target_base_index) ==
    IF vw.shift_animation # None THEN None
    ELSE [vw EXCEPT !.shift_animation = [target_base_index |-> target_base_index,
                                         removing_index |-> vw.base_block_index,
                                         duration |-> BLOCK_SHIFT_DURATION,
                                         elapsed |-> 0]]

\* Some(view) when the animation starts, None when it does not
start_shift_animation(vw, target_base_index) ==
    IF vw.shift_animation # None THEN None
    ELSE LET removing_index == vw.base_block_index
         IN  IF ~\E i \in DOMAIN vw.blocks :
                     vw.blocks[i].index = removing_index /\ ~vw.blocks[i].is_removing
             THEN None
             ELSE [vw EXCEPT
                     !.blocks = [i \in DOMAIN vw.blocks |->
                                    IF vw.blocks[i].index = removing_index
                                    THEN [vw.blocks[i] EXCEPT !.is_removing = TRUE]
                                    ELSE vw.blocks[i]],
                     !.shift_animation = [target_base_index |-> target_base_index,
                                          removing_index |-> removing_index,
                                          duration |-> BLOCK_SHIFT_DURATION,
                                          elapsed |-> 0]]

BlockProgressReached(current_time, current_block_index, block_duration) ==
    Clamp((current_time - current_block_index * block_duration) * 100, 0, 100 * block_duration)
        >= SHIFT_PROGRESS_PERCENT * block_duration

\* update_timeline: an empty block list re-bases the window
RebaseIfEmpty(vw, current_block_index) ==
    IF vw.blocks = <<>> THEN [vw EXCEPT !.base_block_index = current_block_index]
    ELSE vw

\* no backward seek at all
SnapBackNever(vw, current_block_index) == vw

\* the backward seek without the guard on the shift animation
SnapBackUnguarded(vw, current_block_index) ==
    IF current_block_index < vw.base_block_index
    THEN [vw EXCEPT !.base_block_index = current_block_index]
    ELSE vw

\* update_timeline: the backward seek
SnapBack(vw, current_block_index) ==
    IF current_block_index < vw.base_block_index /\ vw.shift_animation = None
    THEN [vw EXCEPT !.base_block_index = current_block_index]
    ELSE vw

\* the window never asked to advance
DesiredBaseStays(base_block_index, current_block_index, progress_reached) ==
    base_block_index

DesiredBase(base_block_index, current_block_index, progress_reached) ==
    LET visible_blocks == Max(VISIBLE_BLOCKS, 1)
        last_block_index == base_block_index + visible_blocks - 1
        threshold_block == base_block_index + Max(visible_blocks - 2, 0)
    IN  IF current_block_index > last_block_index
        THEN current_block_index - (visible_blocks - 1)
        ELSE IF current_block_index >= threshold_block /\ progress_reached
        THEN Max(base_block_index + 1, 0)
        ELSE base_block_index

\* the target of the running animation left where it is
KeepTarget(vw, current_block_index) == vw

ExtendTarget(vw, current_block_index) ==
    LET visible_blocks == Max(VISIBLE_BLOCKS, 1)
        last_block_index == vw.base_block_index + visible_blocks - 1
    IN  IF current_block_index > last_block_index
        THEN [vw EXCEPT !.shift_animation.target_base_index =
                              Max(current_block_index - (visible_blocks - 1), @)]
        ELSE vw

\* update_timeline: the window decision
AdvanceWindow(vw, current_block_index, progress_reached) ==
    IF vw.shift_animation = None
    THEN LET desired_base == DesiredBase(vw.base_block_index, current_block_index,
                                         progress_reached)
         IN  IF desired_base > vw.base_block_index
             THEN LET started == start_shift_animation(vw, desired_base)
                  IN  IF started = None
                      THEN [vw EXCEPT !.base_block_index = desired_base]
                      ELSE started
             ELSE [vw EXCEPT !.base_block_index = desired_base]
    ELSE ExtendTarget(vw, current_block_index)

RECURSIVE InsertBlockSorted(_, _)
InsertBlockSorted(b, s) ==
    IF s = <<>> THEN <<b>>
    ELSE IF b.index < Head(s).index THEN <<b>> \o s
    ELSE <<Head(s)>> \o InsertBlockSorted(b, Tail(s))

RECURSIVE SortBlocks(_)
SortBlocks(s) == IF s = <<>> THEN <<>>
                 ELSE InsertBlockSorted(s[Len(s)], SortBlocks(SubSeq(s, 1, Len(s) - 1)))

DesiredIndices(base_block_index) ==
    [offset \in 1..VISIBLE_BLOCKS |-> base_block_index + offset - 1]

\* every block retained
RetainEveryBlock(block, desired_indices) == TRUE

RetainBlock(block, desired_indices) == InSeq(block.index, desired_indices)

RECURSIVE PushMissing(_, _, _)
PushMissing(blocks, indices, string_count) ==
    IF indices = <<>> THEN blocks
    ELSE IF ~\E i \in DOMAIN blocks : blocks[i].index = Head(indices)
    THEN PushMissing(Append(blocks, spawn_block(Head(indices), string_count)),
                     Tail(indices), string_count)
    ELSE PushMissing(blocks, Tail(indices), string_count)

ensure_blocks(s, string_count) ==
    LET desired_indices == DesiredIndices(s.view.base_block_index)
        retained == SelectSeq(s.view.blocks, LAMBDA b : RetainBlock(b, desired_indices))
        dropped == {i \in DOMAIN s.view.blocks :
                        ~RetainBlock(s.view.blocks[i], desired_indices)}
        pushed == PushMissing(retained, desired_indices, string_count)
    IN  [s EXCEPT
          !.view.blocks = SortBlocks(pushed),
          !.destroyed = @ \cup UNION {BlockEntities("ensure_blocks", s.view.blocks[i]) :
                                          i \in dropped},
          !.created = @ \cup {BlockCmd("ensure_blocks", pushed[i].index) :
                                  i \in (Len(retained) + 1)..Len(pushed)}]

(***************************************************************************)
(* PrimitiveReconciler: render_notes.                                      *)
(***************************************************************************)
Range(seq) == {seq[i] : i \in DOMAIN seq}

NoteEnd(note) == Max(note.time + Max(note.sustain, 0), note.time)

\* not skipped by `note_end <= block_start || note_start >= block_end`
OverlapsBlock(note, block_start, block_end) ==
    ~(NoteEnd(note) <= block_start \/ note.time >= block_end)

OnsetInBlock(note, block_start, block_end) ==
    note.time >= block_start /\ note.time < block_end

\* overlap_end > overlap_start and width_percent > 0 (percent scaled by block_duration)
SegmentVisible(note, block_start, block_end, block_duration) ==
    LET overlap_start == Max(note.time, block_start)
        overlap_end == Min(NoteEnd(note), block_end)
        start_percent == Clamp((overlap_start - block_start) * 100, 0, 100 * block_duration)
        end_percent == Clamp((overlap_end - block_start) * 100, 0, 100 * block_duration)
    IN  overlap_end > overlap_start /\ Max(end_percent - start_percent, 0) > 0

\* every slide segment terminal
SlideAlwaysTerminal(note, block_end) == TRUE

\* f32::EPSILON is below the millisecond grid
SlideTerminal(note, block_end) == NoteEnd(note) <= block_end

RowNotes(notes, string_idx, row_count, block_start, block_end) ==
    {n \in Range(notes) : /\ ~(n.string_index >= row_count)
                          /\ n.string_index = string_idx
                          /\ OverlapsBlock(n, block_start, block_end)}

desired_bubbles(notes, string_idx, row_count, block_start, block_end) ==
    {NoteKey(n) : n \in {m \in RowNotes(notes, string_idx, row_count, block_start, block_end) :
                            OnsetInBlock(m, block_start, block_end)}}

desired_sustains(notes, string_idx, row_count, block_index, block_duration) ==
    LET block_start == block_index * block_duration
        block_end == block_start + block_duration
    IN  {SustainSegmentKey(n, block_index) :
            n \in {m \in RowNotes(notes, string_idx, row_count, block_start, block_end) :
                      /\ SegmentVisible(m, block_start, block_end, block_duration)
                      /\ ~(is_slide(m) /\ primary_slide_target(m) >= 0)}}

desired_slide_segments(notes, string_idx, row_count, block_index, block_duration) ==
    LET block_start == block_index * block_duration
        block_end == block_start + block_duration
    IN  {[key |-> SustainSegmentKey(n, block_index), terminal |-> SlideTerminal(n, block_end)] :
            n \in {m \in RowNotes(notes, string_idx, row_count, block_start, block_end) :
                      /\ SegmentVisible(m, block_start, block_end, block_duration)
                      /\ is_slide(m) /\ primary_slide_target(m) >= 0}}

\* no block treated as past
block_never_past(block_index, current_block_index) == FALSE

block_is_past(block_index, current_block_index) == block_index < current_block_index

\* every desired key spawned, rendered or not
SpawnEveryDesiredKey(desired_keys, rendered_keys) == desired_keys

\* keys spawned for a row: desired keys the row does not contain
MissingKeys(desired_keys, rendered_keys) == desired_keys \ rendered_keys

\* keys despawned for a row: rendered keys no longer desired, unless the block is past
StaleKeys(rendered_keys, desired_keys, is_past) ==
    IF ~is_past THEN rendered_keys \ desired_keys ELSE {}

SlideKeys(entries) == {e.key : e \in entries}

\* the reconciliation of one row: [row, created, destroyed]
RenderRow(row, block_index, string_idx, row_count, fd, current_block_index) ==
    LET block_duration == Max(fd.block_duration, MIN_BLOCK_DURATION)
        block_start == block_index * block_duration
        block_end == block_start + block_duration
        is_past == block_is_past(block_index, current_block_index)
        want_notes == desired_bubbles(fd.notes, string_idx, row_count, block_start, block_end)
        want_sustains == desired_sustains(fd.notes, string_idx, row_count, block_index,
                                          block_duration)
        want_slides == desired_slide_segments(fd.notes, string_idx, row_count, block_index,
                                              block_duration)
        new_notes == MissingKeys(want_notes, row.rendered_notes)
        new_sustains == MissingKeys(want_sustains, row.rendered_sustain_segments)
        new_slides == MissingKeys(SlideKeys(want_slides),
                                  SlideKeys(row.rendered_slide_segments))
        notes1 == row.rendered_notes \cup new_notes
        sustains1 == row.rendered_sustain_segments \cup new_sustains
        slides1 == row.rendered_slide_segments
                       \cup {e \in want_slides : e.key \in new_slides}
        stale_notes == StaleKeys(notes1, want_notes, is_past)
        stale_sustains == StaleKeys(sustains1, want_sustains, is_past)
        stale_slides == StaleKeys(SlideKeys(slides1), SlideKeys(want_slides), is_past)
        r == string_idx + 1
    IN  [row |-> [rendered_notes |-> notes1 \ stale_notes,
                  rendered_sustain_segments |-> sustains1 \ stale_sustains,
                  rendered_slide_segments |-> {e \in slides1 : e.key \notin stale_slides}],
         created |->
             {PrimCmd("note", "render_notes", block_index, r, k) : k \in new_notes}
             \cup {PrimCmd("sustain", "render_notes", block_index, r, k) : k \in new_sustains}
             \cup {PrimCmd("slide", "render_notes", block_index, r, k) : k \in new_slides},
         destroyed |->
             {PrimCmd("note", "render_notes", block_index, r, k) : k \in stale_notes}
             \cup {PrimCmd("sustain", "render_notes", block_index, r, k) : k \in stale_sustains}
             \cup {PrimCmd("slide", "render_notes", block_index, r, k) : k \in stale_slides}]

\* `for (row_idx, row) in block.rows.iter_mut().enumerate()`
RECURSIVE RenderRows(_, _, _, _)
RenderRows(acc, r, fd, current_block_index) ==
    IF r > Len(acc.block.rows) THEN acc
    ELSE LET done == RenderRow(acc.block.rows[r], acc.block.index, r - 1,
                               Len(acc.block.rows), fd, current_block_index)
         IN  RenderRows([block |-> [acc.block EXCEPT !.rows[r] = done.row],
                         created |-> acc.created \cup done.created,
                         destroyed |-> acc.destroyed \cup done.destroyed],
                        r + 1, fd, current_block_index)

RenderBlock(block, fd, current_block_index) ==
    RenderRows([block |-> block, created |-> {}, destroyed |-> {}], 1, fd,
               current_block_index)

\* `for block in view.blocks.iter_mut()`
RECURSIVE RenderBlocks(_, _, _, _)
RenderBlocks(s, i, fd, current_block_index) ==
    IF i > Len(s.view.blocks) THEN s
    ELSE LET done == RenderBlock(s.view.blocks[i], fd, current_block_index)
         IN  RenderBlocks([s EXCEPT !.view.blocks[i] = done.block,
                                    !.created = @ \cup done.created,
                                    !.destroyed = @ \cup done.destroyed],
                          i + 1, fd, current_block_index)

render_notes(s, fd, current_block_index) == RenderBlocks(s, 1, fd, current_block_index)

(***************************************************************************)
(* FretContextView: update_fret_view.                                      *)
(***************************************************************************)
RECURSIVE SeqMin(_)
SeqMin(seq) == IF Len(seq) = 1 THEN seq[1] ELSE Min(seq[1], SeqMin(Tail(seq)))

Sounding(note, current_time) ==
    /\ current_time + NOTE_GROUP_TOLERANCE >= note.time
    /\ current_time <= note.time + Max(note.sustain, 0) + NOTE_GROUP_TOLERANCE

collect_active_notes(fd) ==
    IF fd.notes = <<>> THEN <<>>
    ELSE LET active == SelectSeq(fd.notes, LAMBDA n : Sounding(n, fd.current_time))
         IN  IF active # <<>>
             THEN LET min_time == SeqMin([i \in DOMAIN active |-> active[i].time])
                  IN  SelectSeq(active,
                                LAMBDA n : Abs(n.time - min_time) <= NOTE_GROUP_TOLERANCE)
             ELSE LET upcoming == SelectSeq(fd.notes,
                                      LAMBDA n : n.time + NOTE_GROUP_TOLERANCE >= fd.current_time)
                  IN  IF upcoming = <<>> THEN <<>>
                      ELSE LET target_time ==
                                   SeqMin([i \in DOMAIN upcoming |-> upcoming[i].time])
                           IN  SelectSeq(fd.notes,
                                   LAMBDA n : Abs(n.time - target_time) <= NOTE_GROUP_TOLERANCE)

\* WidenRange, widening upward only
WidenUpwardOnly(start, end) ==
    [start |-> start, end |-> Max(end, start + MIN_FRET_SPAN)]

RECURSIVE WidenRange(_, _)
WidenRange(start, end) ==
    IF ~(end - start < MIN_FRET_SPAN) THEN [start |-> start, end |-> end]
    ELSE LET start1 == IF start > 0 THEN start - 1 ELSE start
         IN  IF end - start1 >= MIN_FRET_SPAN THEN [start |-> start1, end |-> end]
             ELSE WidenRange(start1, end + 1)

FretRange(start, end) ==
    IF start > end THEN WidenRange(end, start) ELSE WidenRange(start, end)

NoteFrets(note) ==
    {f \in {note.fret} \cup Range(note.additional_frets) : f >= 0}

SetMin(S) == CHOOSE x \in S : \A y \in S : x <= y
SetMax(S) == CHOOSE x \in S : \A y \in S : x >= y

compute_fret_range(notes) ==
    LET frets == UNION {NoteFrets(notes[i]) : i \in DOMAIN notes}
    IN  IF frets = {} THEN None ELSE FretRange(SetMin(frets), SetMax(frets))

RangeSpan(range) == Max(range.end - range.start + 1, 1)

\* the stable sort of the signature by (string_index, fret); the third criterion,
\* metadata_hash, only orders notes of one string and fret
SignatureLess(a, b) ==
    \/ a.string_index < b.string_index
    \/ a.string_index = b.string_index /\ a.fret < b.fret

RECURSIVE InsertSignature(_, _)
InsertSignature(k, s) ==
    IF s = <<>> THEN <<k>>
    ELSE IF SignatureLess(k, Head(s)) THEN <<k>> \o s
    ELSE <<Head(s)>> \o InsertSignature(k, Tail(s))

RECURSIVE SortSignature(_)
SortSignature(s) ==
    IF s = <<>> THEN <<>>
    ELSE InsertSignature(s[Len(s)], SortSignature(SubSeq(s, 1, Len(s) - 1)))

Signature(active_notes) ==
    SortSignature([i \in DOMAIN active_notes |-> NoteKey(active_notes[i])])

\* scale in percent: start + (target - start) * (1 - (1 - t)^2)
ZoomScale(elapsed) ==
    LET e == Clamp(elapsed, 0, FRET_ZOOM_DURATION)
        d2 == FRET_ZOOM_DURATION * FRET_ZOOM_DURATION
        r2 == (FRET_ZOOM_DURATION - e) * (FRET_ZOOM_DURATION - e)
    IN  Rat(FRET_ZOOM_START_SCALE * d2 + (100 - FRET_ZOOM_START_SCALE) * (d2 - r2), d2)

progress_fret_zoom_animation(vw, delta_seconds) ==
    IF vw.fret_zoom_animation # None
    THEN LET elapsed == vw.fret_zoom_animation.elapsed + delta_seconds
         IN  [vw EXCEPT !.fret_scale = ZoomScale(elapsed),
                        !.fret_zoom_animation =
                            IF elapsed >= FRET_ZOOM_DURATION THEN None
                            ELSE [elapsed |-> elapsed]]
    ELSE [vw EXCEPT !.fret_scale = <<100, 1>>]

clear_fret_markers(s) ==
    [s EXCEPT !.view.fret_markers = {},
              !.destroyed = @ \cup {MarkerCmd("clear_fret_markers", k) :
                                        k \in s.view.fret_markers}]

\* the keys one note asks for, in call order: <<string, fret, primary, key>>
MarkerRequests(note) ==
    <<[fret |-> note.fret, primary |-> TRUE, key |-> FretMarkerKey(note, <<"Primary">>)]>>
    \o [i \in DOMAIN note.additional_frets |->
           [fret |-> note.additional_frets[i], primary |-> FALSE,
            key |-> FretMarkerKey(note, <<"Additional", note.additional_frets[i]>>)]]

\* maybe_spawn_marker over the requests of one note: [occupied, keys]
RECURSIVE SpawnMarkers(_, _, _)
SpawnMarkers(requests, string_index, acc) ==
    IF requests = <<>> THEN acc
    ELSE LET q == Head(requests)
             slot == <<string_index, q.fret, q.primary>>
         IN  IF q.fret < 0 \/ slot \in acc.occupied
             THEN SpawnMarkers(Tail(requests), string_index, acc)
             ELSE SpawnMarkers(Tail(requests), string_index,
                               [occupied |-> acc.occupied \cup {slot},
                                keys |-> acc.keys \cup {q.key}])

SlideBarVisible(note, current_time) ==
    /\ is_slide(note)
    /\ primary_slide_target(note) >= 0
    /\ note.sustain > 0
    /\ Clamp(current_time - note.time, 0, note.sustain) > 0
    /\ primary_slide_target(note) # note.fret

RECURSIVE SpawnAllMarkers(_, _, _, _)
SpawnAllMarkers(active_notes, string_count, current_time, acc) ==
    IF active_notes = <<>> THEN acc
    ELSE LET note == Head(active_notes)
         IN  IF note.string_index >= string_count
             THEN SpawnAllMarkers(Tail(active_notes), string_count, current_time, acc)
             ELSE LET a1 == SpawnMarkers(MarkerRequests(note), note.string_index, acc)
                      a2 == IF SlideBarVisible(note, current_time)
                            THEN [a1 EXCEPT !.keys = @ \cup
                                               {FretMarkerKey(note, <<"SlideBar">>)}]
                            ELSE a1
                  IN  SpawnAllMarkers(Tail(active_notes), string_count, current_time, a2)

\* markers spawned in a frame: every desired key, after clear_fret_markers
DesiredFretMarkers(active_notes, string_count, current_time) ==
    SpawnAllMarkers(active_notes, string_count, current_time,
                    [occupied |-> {}, keys |-> {}]).keys

ClearFretView(s, delta_seconds) ==
    LET c == clear_fret_markers(s)
    IN  [c EXCEPT !.view = progress_fret_zoom_animation(
                               [c.view EXCEPT !.fret_fret_lines = 0,
                                              !.fret_current_signature = <<>>,
                                              !.fret_current_range = None],
                               delta_seconds)]

update_fret_view(s, fd, delta_seconds) ==
    LET s0 == [s EXCEPT !.view.fret_string_lines = fd.string_count]
        active_notes == collect_active_notes(fd)
    IN  IF active_notes = <<>> THEN ClearFretView(s0, delta_seconds)
        ELSE LET new_signature == Signature(active_notes)
                 s1 == IF new_signature # s0.view.fret_current_signature
                       THEN [s0 EXCEPT !.view.fret_current_signature = new_signature,
                                       !.view.fret_zoom_animation = [elapsed |-> 0],
                                       !.view.fret_scale = <<FRET_ZOOM_START_SCALE, 1>>]
                       ELSE s0
                 range == compute_fret_range(active_notes)
             IN  IF range = None THEN ClearFretView(s1, delta_seconds)
                 ELSE LET s2 == clear_fret_markers(
                                    [s1 EXCEPT !.view.fret_current_range = range])
                          keys == DesiredFretMarkers(active_notes, fd.string_count,
                                                     fd.current_time)
                      IN  [s2 EXCEPT
                            !.view = progress_fret_zoom_animation(
                                         [s2.view EXCEPT !.fret_fret_lines = RangeSpan(range) + 1,
                                                         !.fret_markers = keys],
                                         delta_seconds),
                            !.created = @ \cup {MarkerCmd("update_fret_view", k) : k \in keys}]

(***************************************************************************)
(* update_timeline: one frame of the view.                                 *)
(***************************************************************************)
FrameBlockDuration(fd) == Max(fd.block_duration, MIN_BLOCK_DURATION)

FrameBlockIndex(fd) == CurrentBlockIndex(fd.current_time, FrameBlockDuration(fd))

\* update_timeline, lines 756-816: the reset and the window decision
decide_window(s0, fd) ==
    IF fd.string_count = 0 THEN clear_all_blocks(s0)
    ELSE LET a == IF fd.string_count # s0.view.cached_string_count
                  THEN [clear_all_blocks(s0) EXCEPT
                           !.view.cached_string_count = fd.string_count]
                  ELSE s0
             current_block_index == FrameBlockIndex(fd)
             reached == BlockProgressReached(fd.current_time, current_block_index,
                                             FrameBlockDuration(fd))
         IN  [a EXCEPT !.view = AdvanceWindow(
                 SnapBack(RebaseIfEmpty(a.view, current_block_index),
                          current_block_index),
                 current_block_index, reached)]

update_timeline(vw, fd, delta_seconds) ==
    LET s0 == progress_shift_animation([view |-> vw, created |-> {}, destroyed |-> {}],
                                       delta_seconds)
        b == decide_window(s0, fd)
        s1 == IF fd.string_count = 0 THEN b
              ELSE render_notes(ensure_blocks(b, fd.string_count), fd, FrameBlockIndex(fd))
    IN  update_fret_view(s1, fd, delta_seconds)

(***************************************************************************)
(* The time-marker indicator and the overlays of the blocks.  The entity   *)
(* of the indicator is followed by its parent and by whether it exists;    *)
(* indicator_block_index is <<>> for None and <<i>> for Some(i).           *)
(***************************************************************************)
StackParent == [node |-> "block_stack", index |-> -1]

BlockParent(index) == [node |-> "block", index |-> index]

\* setup_timeline_ui: the indicator ends as a child of timeline_area
InitialIndicator ==
    [alive |-> TRUE,
     parent |-> [node |-> "timeline_area", index |-> -1],
     indicator_block_index |-> <<>>,
     indicator_block_progress |-> <<0, 1>>]

BlockProgress(fd) ==
    LET block_duration == FrameBlockDuration(fd)
    IN  Rat(Clamp(fd.current_time - FrameBlockIndex(fd) * block_duration,
                  0, block_duration),
            block_duration)

\* update_timeline, lines 827-837
overlay_progress(ind, current_block_index, block_progress) ==
    IF ind.indicator_block_index # <<>>
    THEN IF ind.indicator_block_index[1] = current_block_index
         THEN ind.indicator_block_progress
         ELSE IF ind.indicator_block_index[1] < current_block_index
         THEN <<1, 1>>
         ELSE block_progress
    ELSE block_progress

\* the coverage of every block, by block index
update_overlays(blocks, current_block_index, block_progress) ==
    [index \in {blocks[i].index : i \in DOMAIN blocks} |->
        IF index < current_block_index THEN <<1, 1>>
        ELSE IF index = current_block_index THEN block_progress
        ELSE <<0, 1>>]

\* previous + (target - previous) * 0.3
Blend(previous, target) ==
    Rat(7 * previous[1] * target[2] + 3 * target[1] * previous[2],
        10 * previous[2] * target[2])

\* the fields update_indicator writes; the node of a despawned indicator is
\* not found and nothing is written
update_indicator(ind, current_block_index, block_progress) ==
    IF ~ind.alive THEN ind
    ELSE IF ind.indicator_block_index = <<current_block_index>>
    THEN [ind EXCEPT !.indicator_block_progress = Blend(@, block_progress)]
    ELSE [ind EXCEPT !.indicator_block_index = <<current_block_index>>,
                     !.indicator_block_progress = block_progress]

BlockRoots(entries) == {c.block : c \in {e \in entries : e.kind = "block"}}

\* the commands of one frame applied to the indicator in the order they were
\* queued: clear_block re-parents it to the block stack before the despawn,
\* ensure_blocks despawns the roots with their children, update_indicator
\* makes it a child of the current block
indicator_commands(ind, vw, fd, delta_seconds) ==
    LET s0 == progress_shift_animation([view |-> vw, created |-> {}, destroyed |-> {}],
                                       delta_seconds)
        b == decide_window(s0, fd)
        reparented == IF ind.alive /\ BlockRoots(b.destroyed) # {}
                      THEN [ind EXCEPT !.parent = StackParent]
                      ELSE ind
    IN  IF fd.string_count = 0 THEN reparented
        ELSE LET e == ensure_blocks(b, fd.string_count)
                 dropped == BlockRoots(e.destroyed \ b.destroyed)
                 kept == IF reparented.parent.node = "block"
                            /\ reparented.parent.index \in dropped
                         THEN [reparented EXCEPT !.alive = FALSE]
                         ELSE reparented
                 current_block_index == FrameBlockIndex(fd)
             IN  IF kept.alive /\ \E i \in DOMAIN e.view.blocks :
                                      e.view.blocks[i].index = current_block_index
                 THEN [kept EXCEPT !.parent = BlockParent(current_block_index)]
                 ELSE kept

\* update_timeline for the indicator: the fields written during the system,
\* then the queued commands
frame_indicator(ind, vw, fd, delta_seconds) ==
    LET entity == indicator_commands(ind, vw, fd, delta_seconds)
    IN  IF fd.string_count = 0 THEN entity
        ELSE LET written == update_indicator(ind, FrameBlockIndex(fd), BlockProgress(fd))
             IN  [written EXCEPT !.alive = entity.alive, !.parent = entity.parent]

\* update_timeline for the overlays of the blocks of the view after the frame
frame_overlays(ind, blocks, fd) ==
    IF fd.string_count = 0 THEN <<>>
    ELSE update_overlays(blocks, FrameBlockIndex(fd),
                         overlay_progress(ind, FrameBlockIndex(fd), BlockProgress(fd)))

(***************************************************************************)
(* Inputs: the tab assets, playback positions and frame deltas.            *)
(***************************************************************************)
SlideNote(time, sustain, string, fret, slide_to) ==
    [TabNote(time, sustain, string, fret) EXCEPT !.techniques = <<"Slide">>,
                                                 !.slide_to = slide_to]

UnpitchedSlideNote(time, sustain, string, fret, slide_unpitch_to) ==
    [TabNote(time, sustain, string, fret) EXCEPT !.techniques = <<"Slide">>,
                                                 !.slide_unpitch_to = slide_unpitch_to]

BendNote(time, sustain, string, fret, max_bend) ==
    [TabNote(time, sustain, string, fret) EXCEPT !.techniques = <<"Bend">>,
                                                 !.max_bend = max_bend]

ChartEasy ==
    TabNoteChart(1, <<TabNote(0, 0, 0, 3),
                      SlideNote(9900, 300, 1, 5, 7),
                      TabNote(15000, 5000, 0, 2)>>)

ChartHard ==
    TabNoteChart(2, <<TabNote(0, 200, 0, 3),
                      TabNote(20000, 0, 1, 0),
                      UnpitchedSlideNote(25000, 12000, 1, 4, 2),
                      TabNote(31000, 0, 0, -1),
                      TabNote(12000, 100, -1, 5)>>)

\* the difficulty of ChartHard, another sustain for the note at 0 ms
ChartAlt ==
    TabNoteChart(2, <<TabNote(0, 700, 0, 3),
                      TabNote(5000, 0, 1, 9)>>)

ChartBass ==
    TabNoteChart(0, <<TabNote(500, 0, 0, 1),
                      BendNote(10000, 0, 0, 12, 15),
                      TabNote(42000, 1000, 0, -1)>>)

TabGuitar == StringTab(<<ChartEasy, ChartHard>>)
TabBass == StringTab(<<ChartBass>>)

Tabs == {TabGuitar, TabBass, VocalTab}

BlockOffsets == {0, 9500}

PlaybackTimes ==
    {k * DEFAULT_BLOCK_DURATION + o : k \in 0..MaxBlock, o \in BlockOffsets}

Deltas == {100, 200}

(***************************************************************************)
(* One frame: the systems track_timeline and update_timeline of the Update *)
(* schedule.  update_timeline reads the feed track_timeline wrote last.    *)
(***************************************************************************)
RunUpdate(fd, delta_seconds) ==
    \E s \in {update_timeline(view, fd, delta_seconds)} :
        /\ feed' = fd
        /\ view' = s.view
        /\ cmds' = [created |-> s.created, destroyed |-> s.destroyed]
        /\ time_delta' = delta_seconds
        /\ UNCHANGED <<stage, tempo_notes, tempo_duration, merge_charts, merge_out,
                       select_charts, select_out,
                       range_notes, range_out, indicator, overlays>>

\* track_timeline wrote a feed for the tab asset and the playback position
Frame ==
    \E tab \in Tabs, current_time \in PlaybackTimes, delta_seconds \in Deltas :
        \E fd \in {track_timeline(feed, tab, current_time)} :
            RunUpdate(fd, delta_seconds)

\* track_timeline returned early (no clock, no tab asset): the feed is the old one
FrameSameFeed ==
    \E delta_seconds \in Deltas : RunUpdate(feed, delta_seconds)

Init ==
    /\ feed = DefaultFeed
    /\ view = InitialView
    /\ cmds = NoCmds
    /\ time_delta = 0
    /\ stage = IdleStage
    /\ tempo_notes = <<>>
    /\ tempo_duration = None
    /\ merge_charts = <<>>
    /\ merge_out = None
    /\ select_charts = <<>>
    /\ select_out = None
    /\ range_notes = <<>>
    /\ range_out = None
    /\ indicator = InitialIndicator
    /\ overlays = <<>>

Next == Frame \/ FrameSameFeed

Spec == Init /\ [][Next]_vars

(***************************************************************************)
(* Frames keep arriving: the Update schedule runs track_timeline and        *)
(* update_timeline in every frame of the application, each with a positive  *)
(* delta.  The playback positions include a jump past the window and a      *)
(* seek back during a collapse.                                             *)
(***************************************************************************)
LiveTabs == {TabBass, VocalTab}

LiveTimes == {0, 29500, 50000, 59500}

FrameLive ==
    \E tab \in LiveTabs, current_time \in LiveTimes, delta_seconds \in Deltas :
        \E fd \in {track_timeline(feed, tab, current_time)} :
            RunUpdate(fd, delta_seconds)

NextLive == FrameLive \/ FrameSameFeed

\* weak fairness of the frame, WF_vars(NextLive), in the form it takes when
\* a frame that changes the state is possible in every state: such frames
\* occur again and again
SpecLive == Init /\ [][NextLive]_vars /\ []<><<NextLive>>_vars

(***************************************************************************)
(* The tempo estimator on its own: a chart is loaded note by note and the  *)
(* block duration is determined for it.                                    *)
(***************************************************************************)
OnsetGaps == {0, 5, 250, 500, 3000, 5000}

LastGap(notes) ==
    IF Len(notes) < 2 THEN 0 ELSE notes[Len(notes)].time - notes[Len(notes) - 1].time

LoadNote ==
    \E gap \in OnsetGaps :
        /\ Len(tempo_notes) < MaxOnsets
        /\ tempo_notes # <<>> => gap >= LastGap(tempo_notes)
        /\ tempo_notes' =
               Append(tempo_notes,
                      TabNote(IF tempo_notes = <<>> THEN 0
                              ELSE tempo_notes[Len(tempo_notes)].time + gap, 0, 0, 0))
        /\ tempo_duration' = None
        /\ UNCHANGED <<feed, view, cmds, time_delta, stage, merge_charts, merge_out, select_charts, select_out,
                       range_notes, range_out, indicator, overlays>>

EstimateTempo ==
    /\ tempo_duration = None
    /\ tempo_duration' = determine_initial_block_duration(<<TabNoteChart(0, tempo_notes)>>)
    /\ UNCHANGED <<feed, view, cmds, time_delta, stage, tempo_notes, merge_charts, merge_out,
                   select_charts, select_out,
                       range_notes, range_out, indicator, overlays>>

NextTempo == LoadNote \/ EstimateTempo

SpecTempo == Init /\ [][NextTempo]_vars

(***************************************************************************)
(* The merger on its own: charts are stored in some order and merged for a *)
(* playback position.                                                      *)
(***************************************************************************)
\* the lowest difficulty, the note at 0 ms held until 12 s
ChartLong ==
    TabNoteChart(0, <<TabNote(0, 12000, 0, 3)>>)

ChartPool == {ChartEasy, ChartHard, ChartAlt, ChartBass, ChartLong}

StoreChart ==
    \E chart \in ChartPool :
        /\ Len(merge_charts) < MaxCharts
        /\ merge_charts' = Append(merge_charts, chart)
        /\ merge_out' = None
        /\ UNCHANGED <<feed, view, cmds, time_delta, stage, tempo_notes, tempo_duration, select_charts, select_out,
                       range_notes, range_out, indicator, overlays>>

MergedFeed(note_charts, current_time) ==
    track_timeline(DefaultFeed, StringTab(note_charts), current_time)

MergeStored ==
    \E current_time \in PlaybackTimes :
        /\ merge_charts # <<>>
        /\ merge_out' = [current_time |-> current_time,
                         notes |-> MergedFeed(merge_charts, current_time).notes]
        /\ UNCHANGED <<feed, view, cmds, time_delta, stage, tempo_notes, tempo_duration, merge_charts,
                       select_charts, select_out,
                       range_notes, range_out, indicator, overlays>>

NextMerge == StoreChart \/ MergeStored

SpecMerge == Init /\ [][NextMerge]_vars

(***************************************************************************)
(* Chart selection on its own: a tab is assembled chart by chart and       *)
(* select_charts_up_to is applied with a difficulty percentage.            *)
(***************************************************************************)
Difficulties == {-1, 0, 3, 7, 16, 25}

Percents == {-20, 0, 30, 60, 100, 130}

AddChart ==
    \E difficulty \in Difficulties :
        /\ Len(select_charts) < MaxSelectCharts
        /\ select_charts' = Append(select_charts, TabNoteChart(difficulty, <<>>))
        /\ select_out' = None
        /\ UNCHANGED <<feed, view, cmds, time_delta, stage, tempo_notes, tempo_duration, merge_charts, merge_out,
                       range_notes, range_out, indicator, overlays>>

SelectCharts ==
    \E difficulty_percent \in Percents :
        /\ select_out' = [difficulty_percent |-> difficulty_percent,
                          charts |-> select_charts_up_to(select_charts, difficulty_percent)]
        /\ UNCHANGED <<feed, view, cmds, time_delta, stage, tempo_notes, tempo_duration, merge_charts, merge_out,
                       select_charts,
                       range_notes, range_out, indicator, overlays>>

NextSelect == AddChart \/ SelectCharts

SpecSelect == Init /\ [][NextSelect]_vars

(***************************************************************************)
(* The fret range on its own: a group of active notes is assembled note by *)
(* note and compute_fret_range is applied to it.                           *)
(***************************************************************************)
MaxActiveNotes == 2

PrimaryFrets == {-1, 0, 1, 2, 3, 5, 9, 12}

AdditionalFretLists == {<<>>, <<-1>>, <<0>>, <<4>>, <<7, 2>>, <<14>>}

AddActiveNote ==
    \E fret \in PrimaryFrets, additional_frets \in AdditionalFretLists :
        /\ Len(range_notes) < MaxActiveNotes
        /\ range_notes' = Append(range_notes,
                                 [fret |-> fret, additional_frets |-> additional_frets])
        /\ range_out' = None
        /\ UNCHANGED <<feed, view, cmds, time_delta, stage, tempo_notes, tempo_duration,
                       merge_charts, merge_out, select_charts, select_out, indicator, overlays>>

ComputeRange ==
    /\ range_out' = [range |-> compute_fret_range(range_notes)]
    /\ UNCHANGED <<feed, view, cmds, time_delta, stage, tempo_notes, tempo_duration,
                   merge_charts, merge_out, select_charts, select_out, range_notes, indicator, overlays>>

NextRange == AddActiveNote \/ ComputeRange

SpecRange == Init /\ [][NextRange]_vars

(***************************************************************************)
(* The frame with the indicator and the overlays.  Spec follows the blocks, *)
(* primitives and fret view, which read nothing of the indicator; here the  *)
(* same frame also carries the indicator and the overlay coverage.  The     *)
(* blended progress is an exact fraction, so its denominator is bounded.    *)
(***************************************************************************)
MaxProgressDenominator == 200

IndicatorOffsets == {0, 9500}

IndicatorBlocks == {0, 1, 5}

IndicatorTabs == {TabBass, VocalTab}

IndicatorTimes ==
    {k * DEFAULT_BLOCK_DURATION + o : k \in IndicatorBlocks, o \in IndicatorOffsets}

RunUpdateIndicator(fd, delta_seconds) ==
    \E s \in {update_timeline(view, fd, delta_seconds)} :
        \E ind \in {frame_indicator(indicator, view, fd, delta_seconds)} :
            /\ ind.indicator_block_progress[2] <= MaxProgressDenominator
            /\ feed' = fd
            /\ view' = s.view
            /\ cmds' = [created |-> s.created, destroyed |-> s.destroyed]
            /\ time_delta' = delta_seconds
            /\ indicator' = ind
            /\ overlays' = frame_overlays(indicator, s.view.blocks, fd)
            /\ UNCHANGED <<stage, tempo_notes, tempo_duration, merge_charts, merge_out,
                           select_charts, select_out, range_notes, range_out>>

FrameIndicator ==
    \E tab \in IndicatorTabs, current_time \in IndicatorTimes, delta_seconds \in Deltas :
        \E fd \in {track_timeline(feed, tab, current_time)} :
            RunUpdateIndicator(fd, delta_seconds)

FrameIndicatorSameFeed ==
    \E delta_seconds \in Deltas : RunUpdateIndicator(feed, delta_seconds)

NextIndicator == FrameIndicator \/ FrameIndicatorSameFeed

SpecIndicator == Init /\ [][NextIndicator]_vars

(***************************************************************************)
(* update_timeline call by call: the frame of Spec split at the calls of    *)
(* lines 747-863. stage.pc is the call that comes next; stage keeps the     *)
(* two animations as they were when the frame began.                        *)
(***************************************************************************)
StepTimes == {0, 29500, 30000}

Pipeline == [view |-> view, created |-> cmds.created, destroyed |-> cmds.destroyed]

StepResult(s, pc) ==
    /\ view' = s.view
    /\ cmds' = [created |-> s.created, destroyed |-> s.destroyed]
    /\ stage' = [stage EXCEPT !.pc = pc]
    /\ UNCHANGED <<feed, time_delta, tempo_notes, tempo_duration, merge_charts, merge_out,
                   select_charts, select_out,
                       range_notes, range_out, indicator, overlays>>

\* track_timeline wrote the feed; update_timeline is entered with the delta
BeginFrame ==
    \E tab \in Tabs, current_time \in StepTimes, delta_seconds \in Deltas :
        /\ stage.pc = "idle"
        /\ feed' = track_timeline(feed, tab, current_time)
        /\ time_delta' = delta_seconds
        /\ cmds' = NoCmds
        /\ stage' = [pc |-> "progress_shift_animation",
                     shift_animation |-> view.shift_animation,
                     fret_zoom_animation |-> view.fret_zoom_animation]
        /\ UNCHANGED <<view, tempo_notes, tempo_duration, merge_charts, merge_out,
                       select_charts, select_out,
                       range_notes, range_out, indicator, overlays>>

StepProgressShift ==
    /\ stage.pc = "progress_shift_animation"
    /\ StepResult(progress_shift_animation(Pipeline, time_delta), "decide_window")

StepDecideWindow ==
    /\ stage.pc = "decide_window"
    /\ StepResult(decide_window(Pipeline, feed),
                  IF feed.string_count = 0 THEN "update_fret_view" ELSE "ensure_blocks")

StepEnsureBlocks ==
    /\ stage.pc = "ensure_blocks"
    /\ StepResult(ensure_blocks(Pipeline, feed.string_count), "render_notes")

StepRenderNotes ==
    /\ stage.pc = "render_notes"
    /\ StepResult(render_notes(Pipeline, feed, FrameBlockIndex(feed)), "update_fret_view")

StepFretView ==
    /\ stage.pc = "update_fret_view"
    /\ StepResult(update_fret_view(Pipeline, feed, time_delta), "idle")

NextSteps ==
    \/ BeginFrame
    \/ StepProgressShift
    \/ StepDecideWindow
    \/ StepEnsureBlocks
    \/ StepRenderNotes
    \/ StepFretView

SpecSteps == Init /\ [][NextSteps]_vars

(***************************************************************************)
(* Properties of the frame loop (Spec).  The variable feed holds the feed  *)
(* the last update_timeline read, cmds what that frame spawned and         *)
(* despawned.                                                              *)
(***************************************************************************)

\* C1: at the end of every frame that update_timeline processed with
\* string_count > 0 the blocks are exactly the VISIBLE_BLOCKS indices
\* base .. base + VISIBLE_BLOCKS - 1, each once and in order, also while a shift
\* animation is in progress.
C1_WindowExact ==
    feed.string_count > 0 =>
        /\ Len(view.blocks) = VISIBLE_BLOCKS
        /\ \A i \in 1..Len(view.blocks) :
               view.blocks[i].index = view.base_block_index + i - 1

\* a frame that ended in the middle of the shift animation of a catch-up jump
C1_ShiftInProgress ==
    /\ feed.string_count > 0
    /\ view.shift_animation # None
    /\ FrameBlockIndex(feed) > view.base_block_index + VISIBLE_BLOCKS - 1
    /\ view.shift_animation.elapsed > 0

\* C2: base_block_index does not decrease from one frame to the next unless the
\* frame was a reset (string_count zero, or other than the cached count) or a
\* backward seek: the current block index is below base, no shift animation is
\* running, and base snaps to the current block index.
C2_BaseMonotone ==
    [][view'.base_block_index < view.base_block_index =>
          \/ feed'.string_count = 0
          \/ feed'.string_count # view.cached_string_count
          \/ /\ FrameBlockIndex(feed') < view.base_block_index
             /\ view'.shift_animation = None
             /\ view'.base_block_index = FrameBlockIndex(feed')]_vars

\* a backward seek happened: the frame dropped a block beyond the new window
C2_SnappedBack ==
    /\ feed.string_count > 0
    /\ view.base_block_index = FrameBlockIndex(feed)
    /\ \E e \in cmds.destroyed :
           /\ e.kind = "block"
           /\ e.via = "ensure_blocks"
           /\ e.block > view.base_block_index + VISIBLE_BLOCKS - 1

\* C3: with no shift animation in progress, render_notes run again on the view
\* and the feed of the frame creates nothing, destroys nothing and leaves the
\* rendered key sets of every row as they are.
C3_RenderIdempotent ==
    view.shift_animation = None =>
        LET again == render_notes([view |-> view, created |-> {}, destroyed |-> {}],
                                  feed, FrameBlockIndex(feed))
        IN  /\ again.created = {}
            /\ again.destroyed = {}
            /\ again.view.blocks = view.blocks

\* a row holding a note marker, a sustain segment elsewhere and a slide segment
C3_RenderedRows ==
    /\ view.shift_animation = None
    /\ \E i \in DOMAIN view.blocks : \E r \in DOMAIN view.blocks[i].rows :
           /\ view.blocks[i].rows[r].rendered_notes # {}
           /\ view.blocks[i].rows[r].rendered_slide_segments # {}
    /\ \E i \in DOMAIN view.blocks : \E r \in DOMAIN view.blocks[i].rows :
           view.blocks[i].rows[r].rendered_sustain_segments # {}

\* C4: render_notes destroys no note marker, sustain segment or slide segment of
\* a block whose index is below the current block index.
C4_PastBlocksFrozen ==
    \A e \in cmds.destroyed :
        e.via = "render_notes" => ~(e.block < FrameBlockIndex(feed))

\* a past block of the window keeps the marker of a note that left the feed
C4_FrozenStaleMarker ==
    \E i \in DOMAIN view.blocks : \E r \in DOMAIN view.blocks[i].rows :
        /\ view.blocks[i].index < FrameBlockIndex(feed)
        /\ \E k \in view.blocks[i].rows[r].rendered_notes :
               \A j \in DOMAIN feed.notes : NoteKey(feed.notes[j]) # k

\* C5: a fret marker whose key is desired in two consecutive frames is kept:
\* no frame both destroys and creates the marker of one key.
C5_FretMarkersPersist ==
    \A k \in view.fret_markers :
        ~(/\ MarkerCmd("clear_fret_markers", k) \in cmds.destroyed
          /\ MarkerCmd("update_fret_view", k) \in cmds.created)

\* C6: a frame processed with string_count = 0 creates nothing, destroys every
\* block with its primitives and every fret marker that existed before it, and
\* ends with no block, no fret marker, base 0 and no shift animation.
C6_ZeroStringCountClears ==
    [][feed'.string_count = 0 =>
          /\ cmds'.created = {}
          /\ \A i \in DOMAIN view.blocks :
                 BlockEntities("clear_block", view.blocks[i]) \subseteq cmds'.destroyed
          /\ \A k \in view.fret_markers :
                 MarkerCmd("clear_fret_markers", k) \in cmds'.destroyed
          /\ view'.blocks = <<>>
          /\ view'.fret_markers = {}
          /\ view'.base_block_index = 0
          /\ view'.shift_animation = None]_vars

\* a frame with string_count = 0 that took down blocks, slide segments and fret
\* markers
C6_ClearedEverything ==
    /\ feed.string_count = 0
    /\ view.blocks = <<>>
    /\ \E e \in cmds.destroyed : e.kind = "block" /\ e.block > 0
    /\ \E e \in cmds.destroyed : e.kind = "slide"
    /\ \E e \in cmds.destroyed : e.kind = "fret_marker"

\* C10: for a note of the feed with a sustain and a block of the window, the row
\* of the note holds the segment key (note key, block index) exactly when the
\* sustain interval overlaps the block, as a sustain segment or as a slide
\* segment and never both; a slide note gets the slide segment, and the segment
\* is terminal exactly in the block that contains the end of the sustain.
C10_SegmentPerBlock ==
    \A i \in DOMAIN view.blocks : \A j \in DOMAIN feed.notes :
        LET block == view.blocks[i]
            note == feed.notes[j]
            block_start == block.index * FrameBlockDuration(feed)
            block_end == block_start + FrameBlockDuration(feed)
            note_end == note.time + note.sustain
            key == [note |-> NoteKey(note), block_index |-> block.index]
            overlaps == note.time < block_end /\ note_end > block_start
        IN  (note.sustain > 0 /\ note.string_index < Len(block.rows)) =>
                LET row == block.rows[note.string_index + 1]
                    as_sustain == key \in row.rendered_sustain_segments
                    as_slide == {e \in row.rendered_slide_segments : e.key = key}
                IN  /\ overlaps <=> (as_sustain \/ as_slide # {})
                    /\ ~(as_sustain /\ as_slide # {})
                    /\ Cardinality(as_slide) <= 1
                    /\ is_slide(note) => ~as_sustain
                    /\ ~is_slide(note) => as_slide = {}
                    /\ \A e \in as_slide :
                           e.terminal <=> (block_start < note_end /\ note_end <= block_end)

\* the slide of 0.3 s at 9.9 s with blocks of 10 s: a segment in block 0 that is
\* not terminal and a terminal segment in block 1
C10_SlideAcrossBoundary ==
    LET note == TimelineNote(SlideNote(9900, 300, 1, 5, 7))
    IN  /\ FrameBlockDuration(feed) = DEFAULT_BLOCK_DURATION
        /\ \E i \in DOMAIN view.blocks : \E j \in DOMAIN view.blocks :
               /\ view.blocks[i].index = 0
               /\ view.blocks[j].index = 1
               /\ Len(view.blocks[i].rows) = 2
               /\ Len(view.blocks[j].rows) = 2
               /\ [key |-> SustainSegmentKey(note, 0), terminal |-> FALSE]
                      \in view.blocks[i].rows[2].rendered_slide_segments
               /\ [key |-> SustainSegmentKey(note, 1), terminal |-> TRUE]
                      \in view.blocks[j].rows[2].rendered_slide_segments
               /\ view.blocks[i].rows[2].rendered_sustain_segments = {}
               /\ view.blocks[j].rows[2].rendered_sustain_segments = {}

(***************************************************************************)
(* Properties of the tempo estimator (SpecTempo).  The estimate sorts the  *)
(* tempi of the gaps, so loading the gaps in ascending order covers every  *)
(* order of them.                                                          *)
(***************************************************************************)

\* C7: the block duration determine_initial_block_duration returns lies in
\* [MIN_BLOCK_DURATION, MAX_BLOCK_DURATION], from the estimate or the default.
C7_TempoClamp ==
    tempo_duration # None =>
        /\ RLeq(<<MIN_BLOCK_DURATION, 1>>, tempo_duration)
        /\ RLeq(tempo_duration, <<MAX_BLOCK_DURATION, 1>>)

\* an estimate below the range: eight gaps of 0.25 s give 1.0 s, clamped to 1.2 s
C7_EstimateClamped ==
    /\ Len(tempo_notes) = MIN_NOTES_FOR_TEMPO + 1
    /\ \A i \in 1..Len(tempo_notes) : tempo_notes[i].time = (i - 1) * MIN_BEAT
    /\ tempo_duration # None
    /\ tempo_duration = <<MIN_BLOCK_DURATION, 1>>

\* C8 as stated: the 8 onsets 0.0, 0.5, ..., 3.5 s give a block duration of 2.0 s.
C8_EightOnsetsEstimated ==
    (/\ tempo_duration # None
     /\ Len(tempo_notes) = MIN_NOTES_FOR_TEMPO
     /\ \A i \in 1..Len(tempo_notes) : tempo_notes[i].time = (i - 1) * 500)
        => tempo_duration = <<2000, 1>>

\* C8: the estimate needs 8 gaps: the 9 onsets 0.0, 0.5, ..., 4.0 s give a block
\* duration of 0.5 * 4 = 2.0 s, and the 8 onsets 0.0, 0.5, ..., 3.5 s, which
\* have 7 gaps, give the default block duration.
C8_NineOnsetsEstimated ==
    (/\ tempo_duration # None
     /\ \A i \in 1..Len(tempo_notes) : tempo_notes[i].time = (i - 1) * 500)
        => /\ Len(tempo_notes) = MIN_NOTES_FOR_TEMPO + 1
                  => tempo_duration = <<2000, 1>>
           /\ Len(tempo_notes) = MIN_NOTES_FOR_TEMPO
                  => tempo_duration = default_block_duration

\* the block duration was determined for the 9 onsets 0.0, 0.5, ..., 4.0 s
C8_NineOnsetsLoaded ==
    /\ Len(tempo_notes) = MIN_NOTES_FOR_TEMPO + 1
    /\ \A i \in 1..Len(tempo_notes) : tempo_notes[i].time = (i - 1) * 500
    /\ tempo_duration # None
    /\ tempo_duration = <<2000, 1>>

(***************************************************************************)
(* Properties of the tempo estimate, continued (SpecTempo).                *)
(***************************************************************************)
OnsetTimes == {tempo_notes[i].time : i \in DOMAIN tempo_notes}

\* the onsets followed by the next onset within [10 ms, 4 s]
PlausibleGapStarts ==
    {t \in OnsetTimes :
        \E u \in OnsetTimes :
            /\ u > t
            /\ ~\E w \in OnsetTimes : t < w /\ w < u
            /\ u - t >= MIN_INTERVAL_SECONDS
            /\ u - t <= MAX_INTERVAL_SECONDS}

\* C26: determine_initial_block_duration returns the default block duration
\* whenever fewer than 8 distinct onsets are supplied and whenever fewer than
\* 8 onset gaps lie within [10 ms, 4 s]; a value other than the default is
\* returned only with at least 8 such gaps.
C26_DefaultWithoutEnoughGaps ==
    tempo_duration # None =>
        /\ Cardinality(OnsetTimes) < MIN_NOTES_FOR_TEMPO
               => tempo_duration = default_block_duration
        /\ Cardinality(PlausibleGapStarts) < MIN_NOTES_FOR_TEMPO
               => tempo_duration = default_block_duration
        /\ tempo_duration # default_block_duration
               => Cardinality(PlausibleGapStarts) >= MIN_NOTES_FOR_TEMPO

\* 9 distinct onsets of which one gap is outside the range: the default
C26_ImplausibleGapGivesDefault ==
    /\ tempo_duration # None
    /\ Cardinality(OnsetTimes) = MIN_NOTES_FOR_TEMPO + 1
    /\ Cardinality(PlausibleGapStarts) = MIN_NOTES_FOR_TEMPO - 1
    /\ tempo_duration = default_block_duration

(***************************************************************************)
(* Properties of the merger (SpecMerge).                                   *)
(***************************************************************************)

\* C9: the merged note list is the same for every order in which the charts are
\* stored.
C9_MergeOrderIndependent ==
    merge_out # None =>
        \A p \in Permutations(1..Len(merge_charts)) :
            MergedFeed([i \in 1..Len(merge_charts) |-> merge_charts[p[i]]],
                       merge_out.current_time).notes = merge_out.notes

(***************************************************************************)
(* Properties of the block window, continued (Spec).                       *)
(***************************************************************************)
\* the frame ahead is processed with no shift animation running, the blocks
\* of the previous frame still in place and the current block past the window
CatchUpFrame ==
    /\ view.shift_animation = None
    /\ view.blocks # <<>>
    /\ feed'.string_count > 0
    /\ feed'.string_count = view.cached_string_count
    /\ FrameBlockIndex(feed') > view.base_block_index + VISIBLE_BLOCKS - 1

\* C12: catch-up is instant: in a frame with no shift animation running and
\* the current block index > base + V - 1, base becomes current - (V - 1) in
\* that same frame and no collapse animation is started.
C12_CatchUpInstant ==
    [][CatchUpFrame =>
          /\ view'.base_block_index = FrameBlockIndex(feed') - (VISIBLE_BLOCKS - 1)
          /\ view'.shift_animation = None]_vars

\* the feed read by the frame ahead has another string_count than the feed of
\* the frame before
StreamReset == feed'.string_count # feed.string_count

\* the zoom animation of the frame before is gone: none is left, or new active
\* notes started one afresh
ZoomCancelled ==
    \/ view'.fret_zoom_animation = None
    \/ /\ view'.fret_current_signature # <<>>
       /\ view'.fret_current_signature # view.fret_current_signature

ResetClearsEntities ==
    /\ \A i \in DOMAIN view.blocks :
           BlockEntities("clear_block", view.blocks[i]) \subseteq cmds'.destroyed
    /\ \A k \in view.fret_markers :
           MarkerCmd("clear_fret_markers", k) \in cmds'.destroyed

\* C13: a stream reset (string_count becoming zero or another value) cancels in
\* that frame an in-flight shift animation and an in-flight fret zoom
\* animation, and leaves no block, primitive or fret marker of the frame before.
C13_ResetCancelsAnimations ==
    [][StreamReset =>
          /\ view'.shift_animation = None
          /\ view.fret_zoom_animation # None => ZoomCancelled
          /\ ResetClearsEntities]_vars

\* the frame ahead is no stream reset
SteadyFrame ==
    /\ feed'.string_count > 0
    /\ feed'.string_count = view.cached_string_count

\* no animation runs and the frame ahead finds the current block in the last
\* two blocks of the window, at 95% of the block or later
CollapseDue ==
    /\ view.shift_animation = None
    /\ view.blocks # <<>>
    /\ LET current == FrameBlockIndex(feed')
           base == view.base_block_index
       IN  /\ base <= current
           /\ current <= base + VISIBLE_BLOCKS - 1
           /\ current >= base + VISIBLE_BLOCKS - 2
           /\ BlockProgressReached(feed'.current_time, current, FrameBlockDuration(feed'))

CollapseStarted ==
    /\ view'.base_block_index = view.base_block_index
    /\ view'.shift_animation # None
    /\ view'.shift_animation.removing_index = view.base_block_index
    /\ view'.shift_animation.target_base_index = view.base_block_index + 1
    /\ view'.shift_animation.elapsed = 0
    /\ \E i \in DOMAIN view'.blocks :
           view'.blocks[i].index = view.base_block_index /\ view'.blocks[i].is_removing

\* the accumulated frame deltas stay below the duration: the collapse goes on
CollapseHoldsBase ==
    (view.shift_animation # None
        /\ view.shift_animation.elapsed + time_delta' < BLOCK_SHIFT_DURATION) =>
        /\ view'.base_block_index = view.base_block_index
        /\ view'.shift_animation # None
        /\ view'.shift_animation.removing_index = view.shift_animation.removing_index
        /\ view'.shift_animation.elapsed = view.shift_animation.elapsed + time_delta'
        /\ view'.shift_animation.target_base_index >= view.shift_animation.target_base_index
        /\ BlockCmd("clear_block", view.shift_animation.removing_index) \notin cmds'.destroyed

CollapseDone ==
    /\ view.shift_animation # None
    /\ view.shift_animation.elapsed + time_delta' >= BLOCK_SHIFT_DURATION

CollapseDestroysBlock ==
    /\ BlockCmd("clear_block", view.shift_animation.removing_index) \in cmds'.destroyed
    /\ \/ view'.shift_animation = None
       \/ view'.shift_animation.removing_index # view.shift_animation.removing_index

CollapseGoesOn ==
    /\ view.shift_animation # None
    /\ view.shift_animation.elapsed + time_delta' < BLOCK_SHIFT_DURATION

\* C15: while a collapse is in progress and the stream is not reset, the target
\* is raised to current - (V - 1) when the window [target, target + V) would be
\* behind the current block and is left alone otherwise, so it never
\* decreases; the removing block stays and the elapsed time only grows by the
\* frame delta, wherever playback moves.
C15_TargetOnlyExtends ==
    [][(SteadyFrame /\ CollapseGoesOn) =>
          LET current == FrameBlockIndex(feed')
              target == view.shift_animation.target_base_index
          IN  /\ view'.shift_animation # None
              /\ view'.shift_animation.target_base_index =
                     IF current > target + VISIBLE_BLOCKS - 1
                     THEN current - (VISIBLE_BLOCKS - 1)
                     ELSE target
              /\ view'.shift_animation.removing_index = view.shift_animation.removing_index
              /\ view'.shift_animation.elapsed = view.shift_animation.elapsed + time_delta'
              /\ view'.shift_animation.duration = view.shift_animation.duration
              /\ \E i \in DOMAIN view'.blocks :
                     /\ view'.blocks[i].index = view.shift_animation.removing_index
                     /\ view'.blocks[i].is_removing]_vars

\* a collapse in flight past its first frame whose target lies more than one
\* block above the removing block, playback being beyond the window
\* [removing + 1, removing + V]
C15_TargetRaised ==
    /\ view.shift_animation # None
    /\ view.shift_animation.elapsed > 0
    /\ view.shift_animation.target_base_index > view.shift_animation.removing_index + 1
    /\ view.shift_animation.target_base_index = FrameBlockIndex(feed) - (VISIBLE_BLOCKS - 1)

\* the frame ahead has strings and finds playback before the window
PlaybackRegressed ==
    /\ feed'.string_count > 0
    /\ FrameBlockIndex(feed') < view.base_block_index

InNewWindow(index) ==
    /\ index >= view'.base_block_index
    /\ index <= view'.base_block_index + VISIBLE_BLOCKS - 1

\* C16: when the current block index is < base and no shift animation is
\* running (or the running one completes in this frame), the frame ends with
\* base at the current block, no animation and every block outside the new
\* window despawned; while an animation goes on, base and the animation stay.
C16_SnapBackImmediate ==
    [][PlaybackRegressed =>
          IF CollapseGoesOn /\ SteadyFrame
          THEN /\ view'.base_block_index = view.base_block_index
               /\ view'.shift_animation # None
          ELSE /\ view'.base_block_index = FrameBlockIndex(feed')
               /\ view'.shift_animation = None
               /\ \A i \in DOMAIN view'.blocks : InNewWindow(view'.blocks[i].index)
               /\ \A i \in DOMAIN view.blocks :
                      ~InNewWindow(view.blocks[i].index) =>
                          \E via \in {"ensure_blocks", "clear_block"} :
                              BlockCmd(via, view.blocks[i].index) \in cmds'.destroyed]_vars

\* a frame that snapped base back to the current block: blocks above the new
\* window were despawned by ensure_blocks and the current block was spawned
C16_SnappedToCurrent ==
    /\ view.shift_animation = None
    /\ feed.string_count > 0
    /\ view.base_block_index = FrameBlockIndex(feed)
    /\ BlockCmd("ensure_blocks", view.base_block_index) \in cmds.created
    /\ \E e \in cmds.destroyed :
           /\ e.kind = "block"
           /\ e.via = "ensure_blocks"
           /\ e.block > view.base_block_index + VISIBLE_BLOCKS - 1

(***************************************************************************)
(* Properties of the note markers (Spec).                                  *)
(***************************************************************************)
\* the keys of the feed notes of a string whose onset lies in
\* [block_start, block_end)
OnsetKeys(block_index, string_index) ==
    {NoteKey(feed.notes[j]) :
        j \in {k \in DOMAIN feed.notes :
                  /\ feed.notes[k].string_index = string_index
                  /\ feed.notes[k].time >= block_index * FrameBlockDuration(feed)
                  /\ feed.notes[k].time < (block_index + 1) * FrameBlockDuration(feed)}}

\* C17: after render_notes every block that is not in the past holds, in the
\* row of each string, a NoteMarker for exactly the feed notes of that string
\* whose onset lies in [block_start, block_end), notes with sustain 0 and
\* notes starting exactly at block_start included.
C17_MarkerPerOnset ==
    \A i \in DOMAIN view.blocks :
        view.blocks[i].index >= FrameBlockIndex(feed) =>
            \A r \in DOMAIN view.blocks[i].rows :
                view.blocks[i].rows[r].rendered_notes = OnsetKeys(view.blocks[i].index, r - 1)

(***************************************************************************)
(* Properties of the merge window (Spec).                                  *)
(***************************************************************************)
SelectedChartNotes(tab) ==
    UNION {Range(chart.notes) :
              chart \in Range(select_charts_up_to(tab.note_charts, DEFAULT_DIFFICULTY_PERCENT))}

\* the interval [time, time + sustain] of the note meets a block of the window
\* of the frame ahead that is not in the past
MeetsLiveBlock(note) ==
    \E i \in DOMAIN view'.blocks :
        LET index == view'.blocks[i].index
        IN  /\ index >= FrameBlockIndex(feed')
            /\ note.time < (index + 1) * FrameBlockDuration(feed')
            /\ TabNoteEnd(note) >= index * FrameBlockDuration(feed')

InMergedFeed(note) ==
    \E j \in DOMAIN feed'.notes :
        /\ feed'.notes[j].time = note.time
        /\ feed'.notes[j].string_index = note.string
        /\ feed'.notes[j].fret = note.fret

\* C18: in every frame the merged note list holds every note of the selected
\* charts (string >= 0) whose interval [time, time + sustain] overlaps a
\* visible block with index >= the current block index.
C18_MergedCoversVisible ==
    [][\A tab \in Tabs :
          (tab.kind = "Strings" /\ feed' = track_timeline(feed, tab, feed'.current_time)) =>
              \A note \in SelectedChartNotes(tab) :
                  (note.string >= 0 /\ MeetsLiveBlock(note)) => InMergedFeed(note)]_vars

(***************************************************************************)
(* Properties of the fret view (Spec).                                     *)
(***************************************************************************)
\* the feed notes whose interval [time, time + sustain] contains current_time
\* within the tolerance
SoundingNotes(fd) ==
    SelectSeq(fd.notes,
              LAMBDA n : /\ n.time - NOTE_GROUP_TOLERANCE <= fd.current_time
                         /\ fd.current_time <= n.time + Max(n.sustain, 0) + NOTE_GROUP_TOLERANCE)

\* the notes whose onset is within the tolerance of the smallest onset not
\* before current_time
UpcomingGroup(fd) ==
    LET onsets == {fd.notes[i].time : i \in {j \in DOMAIN fd.notes :
                                                fd.notes[j].time >= fd.current_time}}
    IN  IF onsets = {} THEN <<>>
        ELSE SelectSeq(fd.notes,
                       LAMBDA n : Abs(n.time - SetMin(onsets)) <= NOTE_GROUP_TOLERANCE)

\* C19: collect_active_notes returns exactly the sounding notes whenever there
\* is one, and the nearest upcoming group (possibly empty) only when there is
\* none.
C19_ActiveNotesExact ==
    collect_active_notes(feed) =
        IF SoundingNotes(feed) # <<>> THEN SoundingNotes(feed) ELSE UpcomingGroup(feed)

ActiveSignature(fd) == Signature(collect_active_notes(fd))

\* the active notes of the frame ahead have another signature than those of
\* the frame before
SignatureChanged ==
    /\ ActiveSignature(feed') # <<>>
    /\ ActiveSignature(feed') # ActiveSignature(feed)

\* the zoom animation was started in the frame ahead and advanced by its delta
ZoomStarted ==
    /\ view'.fret_scale = ZoomScale(time_delta')
    /\ view'.fret_zoom_animation =
           IF time_delta' >= FRET_ZOOM_DURATION THEN None ELSE [elapsed |-> time_delta']

\* the zoom animation of the frame before went on by the delta of the frame
\* ahead, ending with scale 1.0 at 0.28 s; with none, the scale is 1.0
ZoomContinued ==
    IF view.fret_zoom_animation = None
    THEN view'.fret_zoom_animation = None /\ view'.fret_scale = <<100, 1>>
    ELSE LET elapsed == view.fret_zoom_animation.elapsed + time_delta'
         IN  IF elapsed >= FRET_ZOOM_DURATION
             THEN view'.fret_zoom_animation = None /\ view'.fret_scale = <<100, 1>>
             ELSE /\ view'.fret_zoom_animation = [elapsed |-> elapsed]
                  /\ view'.fret_scale = ZoomScale(elapsed)

\* C20: a frame whose active-note signature differs from that of the frame
\* before starts a zoom animation from scale 0.85; while the active notes stay
\* the same the animation is not restarted, ends when 0.28 s of frame time
\* has accumulated, and the scale is 1.0 from then on.
C20_ZoomOncePerSignature ==
    [][/\ SignatureChanged => ZoomStarted
       /\ (ActiveSignature(feed') # <<>> /\ ActiveSignature(feed') = ActiveSignature(feed))
              => ZoomContinued]_vars

(***************************************************************************)
(* Properties of malformed notes (Spec).                                   *)
(***************************************************************************)
\* the note keys of every note marker, sustain segment and slide segment of the
\* blocks, and of every fret marker
RenderedNoteKeys ==
    UNION {view.blocks[i].rows[r].rendered_notes
           \cup {k.note : k \in view.blocks[i].rows[r].rendered_sustain_segments}
           \cup {e.key.note : e \in view.blocks[i].rows[r].rendered_slide_segments}
           : i \in DOMAIN view.blocks, r \in 1..view.cached_string_count}
    \cup {m.note : m \in view.fret_markers}

ValidString(k) == k.string_index >= 0 /\ k.string_index < feed.string_count

\* C22: notes with a negative primary fret or an invalid string index are
\* dropped: no note marker, segment or fret marker exists for such a note.
C22_MalformedNotesDropped ==
    \A k \in RenderedNoteKeys : k.fret >= 0 /\ ValidString(k)

(***************************************************************************)
(* Properties of the fret range (SpecRange).                               *)
(***************************************************************************)
ValidFrets == UNION {NoteFrets(range_notes[i]) : i \in DOMAIN range_notes}

\* the range the widening rule gives for [lo, hi]: unchanged when wide enough,
\* else the missing span is taken downward and upward in turn, downward
\* first, and upward alone once fret 0 is reached
StatedRange(lo, hi) ==
    IF hi - lo >= MIN_FRET_SPAN THEN [start |-> lo, end |-> hi]
    ELSE LET missing == MIN_FRET_SPAN - (hi - lo)
             down == Min(lo, (missing + 1) \div 2)
         IN  [start |-> lo - down, end |-> hi + (missing - down)]

\* C23: for active notes with at least one non-negative fret the computed range
\* contains every non-negative primary and additional fret, spans at least
\* MIN_FRET_SPAN, starts at 0 or above, is [min, max] when that is wide enough
\* and is otherwise widened downward first and upward as fret 0 or the
\* alternation requires; the computation ends with a range.
C23_FretRangeCovers ==
    (range_out # None /\ ValidFrets # {}) =>
        /\ range_out.range # None
        /\ \A f \in ValidFrets : range_out.range.start <= f /\ f <= range_out.range.end
        /\ range_out.range.end - range_out.range.start >= MIN_FRET_SPAN
        /\ range_out.range.start >= 0
        /\ range_out.range = StatedRange(SetMin(ValidFrets), SetMax(ValidFrets))

\* a narrow group at fret 0 and a narrow group above it have been widened
C23_RangeWidened ==
    /\ range_out # None
    /\ ValidFrets # {}
    /\ SetMax(ValidFrets) - SetMin(ValidFrets) < MIN_FRET_SPAN
    /\ SetMin(ValidFrets) = 1
    /\ range_out.range.start = 0
    /\ range_out.range.end > SetMax(ValidFrets)

(***************************************************************************)
(* Properties of the overlays and the indicator (SpecIndicator).           *)
(***************************************************************************)
StatedCoverage(index) ==
    IF index < FrameBlockIndex(feed) THEN <<1, 1>>
    ELSE IF index > FrameBlockIndex(feed) THEN <<0, 1>>
    ELSE BlockProgress(feed)

\* C24: after a frame with string_count > 0 the overlay coverage of every block
\* is 1 below the current block index, 0 above it, and for the current block
\* the within-block progress of that frame.
C24_OverlayCoverage ==
    feed.string_count > 0 =>
        \A i \in DOMAIN view.blocks :
            overlays[view.blocks[i].index] = StatedCoverage(view.blocks[i].index)

\* C29: the time-marker indicator survives every block removal: whenever a
\* block root is despawned the indicator is not a child of that block, so the
\* indicator the view refers to exists.
C29_IndicatorSurvives == indicator.alive

(***************************************************************************)
(* Properties of the merged note list (SpecMerge).                         *)
(***************************************************************************)
MergedWindow == MergedFeed(merge_charts, merge_out.current_time)

\* the selected charts in the order the merge processes them
ProcessedCharts ==
    SortChartsByDifficulty(select_charts_up_to(merge_charts, DEFAULT_DIFFICULTY_PERCENT))

TimelineKey(note) == <<note.time, note.string_index, note.fret>>

\* the processed charts that hold a note under the key
Holders(key) ==
    {c \in DOMAIN ProcessedCharts :
        \E j \in DOMAIN ProcessedCharts[c].notes :
            MergeKey(ProcessedCharts[c].notes[j]) = key}

\* the last note of the chart under the key
LastCopy(chart, key) ==
    LET at == {j \in DOMAIN chart.notes : MergeKey(chart.notes[j]) = key}
    IN  chart.notes[SetMax(at)]

\* C25: the merged note list has no two notes with the same (time, string,
\* fret), is sorted ascending by (time, string, fret), holds only notes whose
\* interval [time, time + sustain] meets [window_start, window_end], and of the
\* selected charts that hold a note with one key the copy of the chart
\* processed last, which has the highest difficulty, is the one kept.
C25_MergedList ==
    merge_out # None =>
        /\ \A i, j \in DOMAIN merge_out.notes :
               i < j => /\ TimelineKey(merge_out.notes[i]) # TimelineKey(merge_out.notes[j])
                        /\ KeyLess(TimelineKey(merge_out.notes[i]),
                                   TimelineKey(merge_out.notes[j]))
        /\ \A i \in DOMAIN merge_out.notes :
               /\ merge_out.notes[i].time <= MergedWindow.window_end
               /\ merge_out.notes[i].time + merge_out.notes[i].sustain
                      >= MergedWindow.window_start
        /\ \A i \in DOMAIN merge_out.notes :
               LET key == TimelineKey(merge_out.notes[i])
                   last == SetMax(Holders(key))
               IN  /\ merge_out.notes[i] = TimelineNote(LastCopy(ProcessedCharts[last], key))
                   /\ \A c \in Holders(key) :
                          ProcessedCharts[c].difficulty <= ProcessedCharts[last].difficulty

(***************************************************************************)
(* Properties of the window and the shift animation (Spec).                *)
(***************************************************************************)
\* C27: at the end of every frame with string_count > 0 in which no shift
\* animation is active the current block is one of the visible blocks:
\* base <= current block index <= base + VISIBLE_BLOCKS - 1.
C27_CurrentBlockVisible ==
    (feed.string_count > 0 /\ view.shift_animation = None) =>
        /\ view.base_block_index <= FrameBlockIndex(feed)
        /\ FrameBlockIndex(feed) <= view.base_block_index + VISIBLE_BLOCKS - 1

\* a collapse completed in the frame and left the current block as the last
\* visible one
C27_LastVisibleAfterCollapse ==
    /\ feed.string_count > 0
    /\ view.shift_animation = None
    /\ view.base_block_index > 0
    /\ FrameBlockIndex(feed) = view.base_block_index + VISIBLE_BLOCKS - 1
    /\ \E c \in cmds.destroyed : c.kind = "block" /\ c.via = "clear_block"

\* C30: while a shift animation is active its removing_index is
\* base_block_index, its target_base_index is above base_block_index and the
\* base block is the only block flagged is_removing; while none is active no
\* block is flagged is_removing.
C30_ShiftAnimationConsistent ==
    IF view.shift_animation # None
    THEN /\ view.shift_animation.removing_index = view.base_block_index
         /\ view.shift_animation.target_base_index > view.base_block_index
         /\ \E i \in DOMAIN view.blocks : view.blocks[i].index = view.base_block_index
         /\ \A i \in DOMAIN view.blocks :
                view.blocks[i].is_removing <=>
                    view.blocks[i].index = view.base_block_index
    ELSE \A i \in DOMAIN view.blocks : ~view.blocks[i].is_removing

\* a collapse under way for a second frame, its target raised past base + 1
C30_CollapseUnderWay ==
    /\ view.shift_animation # None
    /\ view.shift_animation.elapsed > 0
    /\ view.shift_animation.target_base_index > view.base_block_index + 1
    /\ \E i \in DOMAIN view.blocks : view.blocks[i].is_removing

\* a shift animation that collapses the block of the index is active
Collapsing(index) ==
    /\ view.shift_animation # None
    /\ view.shift_animation.removing_index = index

\* the current block is not one of the visible blocks
CurrentOutsideWindow ==
    /\ feed.string_count > 0
    /\ \/ FrameBlockIndex(feed) < view.base_block_index
       \/ FrameBlockIndex(feed) > view.base_block_index + VISIBLE_BLOCKS - 1

\* C28: while frames keep arriving with a positive delta every shift animation
\* ends: the collapse of a block is followed by a frame after which that
\* collapse is over, without a shift animation the window contains the
\* current block, and a current block outside the window is followed by a
\* frame after which it is inside.
C28_ShiftTerminates ==
    /\ \A index \in 0..MaxBlock : Collapsing(index) ~> ~Collapsing(index)
    /\ [](view.shift_animation = None => ~CurrentOutsideWindow)
    /\ CurrentOutsideWindow ~> ~CurrentOutsideWindow

\* a backward seek during a collapse: the current block is below the window
C28_BelowWindowDuringCollapse ==
    /\ view.shift_animation # None
    /\ feed.string_count > 0
    /\ FrameBlockIndex(feed) < view.base_block_index

(***************************************************************************)
(* Properties of the chart selection (SpecSelect).                         *)
(***************************************************************************)
ChartDifficulties(charts) == {charts[i].difficulty : i \in DOMAIN charts}

\* the threshold as the specification states it, in exact arithmetic
StatedThreshold(charts, difficulty_percent) ==
    Max(CeilDiv(SetMax(ChartDifficulties(charts)) * Clamp(difficulty_percent, 0, 100), 100),
        SetMin(ChartDifficulties(charts)))

\* C11: select_charts_up_to returns exactly the charts whose difficulty is at
\* most max(ceil(max_difficulty * pct / 100), min_difficulty), with pct
\* clamped to [0, 100].
C11_SelectExact ==
    (select_out # None /\ select_charts # <<>>) =>
        ChartDifficulties(select_out.charts) =
            {d \in ChartDifficulties(select_charts) :
                d <= StatedThreshold(select_charts, select_out.difficulty_percent)}

\* C11, the remaining parts: the minimum-difficulty chart is always selected
\* and the selection grows with the percentage.
C11_MinimumAndMonotone ==
    select_charts # <<>> =>
        /\ \A p \in Percents :
               SetMin(ChartDifficulties(select_charts))
                   \in ChartDifficulties(select_charts_up_to(select_charts, p))
        /\ \A p1, p2 \in Percents :
               p1 <= p2 => ChartDifficulties(select_charts_up_to(select_charts, p1))
                               \subseteq ChartDifficulties(select_charts_up_to(select_charts, p2))

C11_ZeroPercentExample ==
    (select_out # None /\ select_out.difficulty_percent = 0
        /\ ChartDifficulties(select_charts) = {0, 3, 7}) =>
        ChartDifficulties(select_out.charts) = {0}

(***************************************************************************)
(* Properties of the order of calls within a frame (SpecSteps).            *)
(***************************************************************************)
AtReconciliation == stage.pc \in {"ensure_blocks", "render_notes"}

\* the shift animation of the start of the frame is gone, replaced by one that
\* removes another block, or advanced by the frame delta, once
ShiftAdvancedOnce ==
    stage.shift_animation # None =>
        \/ view.shift_animation = None
        \/ view.shift_animation.removing_index # stage.shift_animation.removing_index
        \/ view.shift_animation.elapsed = stage.shift_animation.elapsed + time_delta

\* the zoom animation of the start of the frame is gone or advanced by the
\* frame delta, once
ZoomAdvancedOnce ==
    stage.fret_zoom_animation # None =>
        \/ view.fret_zoom_animation = None
        \/ view.fret_zoom_animation.elapsed = stage.fret_zoom_animation.elapsed + time_delta

\* C21 as stated: when ensure_blocks and render_notes run, the shift animation
\* and the fret zoom animation have both been advanced by the frame delta.
C21_BothAdvancedBeforeReconciliation ==
    AtReconciliation => (ShiftAdvancedOnce /\ ZoomAdvancedOnce)

\* C21: the shift animation is advanced once by the frame delta before
\* ensure_blocks and render_notes run and not again in the frame; the zoom
\* animation is untouched while they run and is advanced once by the frame
\* delta, or restarted and advanced once, by update_fret_view after them.
C21_AdvancedOncePerFrame ==
    /\ stage.pc \notin {"idle", "progress_shift_animation"} => ShiftAdvancedOnce
    /\ (stage.pc = "idle" /\ time_delta > 0) => ShiftAdvancedOnce
    /\ stage.pc \notin {"idle", "progress_shift_animation"} =>
           view.fret_zoom_animation = stage.fret_zoom_animation
    /\ (stage.pc = "idle" /\ time_delta > 0) =>
           \/ ZoomAdvancedOnce
           \/ view.fret_zoom_animation.elapsed = time_delta

\* ensure_blocks is about to run in a frame that began with both animations in
\* flight; the collapse goes on
C21_ReconcilingWithAnimations ==
    /\ stage.pc = "ensure_blocks"
    /\ stage.shift_animation # None
    /\ stage.fret_zoom_animation # None
    /\ view.shift_animation # None
    /\ view.shift_animation.elapsed > 0

====
